---- MODULE Spec2Model ----
(***************************************************************************)
(* Model of the topic pipeline of tyler_news (src/src/gemini_processor.py  *)
(* and src/src/main.py): merge_and_deduplicate, filter_pl_topics,          *)
(* score_drama, select_top_topic, generate_scripts and run_pipeline; of    *)
(* the news fetch (src/src/news_client.py); and of the schedule            *)
(* (src/src/telegram_bot.py and src/src/scheduled_run.py).                 *)
(*                                                                         *)
(* A text is a sequence of characters.  A character is a TLA+ string; the  *)
(* character " " is whitespace, every other character is a non-whitespace  *)
(* symbol (a letter, or a whole word taken as one symbol).                 *)
(***************************************************************************)
EXTENDS Integers, Sequences, FiniteSets, TLC

VARIABLES
    \* merge_and_deduplicate(trends, news)
    trends,         \* the trend records given, in order (each a text: its "topic")
    news,           \* the news records given, in order (each a text: its "topic")
    all_topics,     \* the local list all_topics
    seen_topics,    \* the local set seen_topics
    m_i,            \* how many input records the two loops have examined
    \* filter_pl_topics(topics)
    f_topics,       \* the argument topics (each record named by a number)
    f_pc,           \* "call" before the call, "returned" after it
    f_response,     \* what the oracle answered ("none": it was not consulted)
    f_result,       \* the list returned
    \* score_drama(topics)
    s_topics,       \* the argument topics: a list of references to dictionaries
    s_heap,         \* the dictionaries: reference -> its "score" and "score_breakdown"
    s_pc,           \* "call" before the call, "returned" after it
    s_response,     \* what the oracle answered ("none": it was not consulted)
    s_result,       \* the list returned
    \* select_top_topic(scored_topics)
    t_scored_topics,\* the argument scored_topics: a list of references
    t_heap,         \* reference -> the "score" of the dictionary
    t_pc,           \* "call" before the call, "returned" after it
    t_result,       \* <<>> before the return, then <<the reference returned>>
    \* generate_scripts(topic)
    g_topic,        \* the argument topic: the text under its key "topic"
    g_pc,           \* "call" before the call, "returned" after it
    g_response,     \* what the oracle answered
    g_result,       \* the list returned
    g_asked,        \* how many times the oracle has been called
    \* run_pipeline(send_telegram_updates)
    p_pc,           \* the step of run_pipeline that runs next
    p_updates,      \* the argument send_telegram_updates
    p_trends,       \* the local trends (each record its "topic")
    p_news,         \* the local news (each record its "topic")
    p_all_topics,   \* the local all_topics
    p_pl_topics,    \* the local pl_topics: references to records of all_topics
    p_scored_topics,\* the local scored_topics
    p_heap,         \* reference -> the "score" and "score_breakdown" of the record
    p_top_topic,    \* the local top_topic: <<>> before step 6, then <<reference>>
    p_scripts,      \* the local scripts
    p_result,       \* the dictionary result
    p_sheet,        \* the rows append_result has written to the sheet
    p_calls,        \* the collaborators called so far, in order
    p_answers,      \* what the oracle answered at each stage (<<>>: not asked)
    p_faults,       \* the collaborators that have failed in this run
    \* the schedule: the bot's commands and run_scheduled()
    c_file,         \* the file schedule_state.json
    c_cmds,         \* the commands the bot has handled, in order
    c_reply,        \* the last reply of the bot ("none": no command yet)
    c_pc,           \* the step of run_scheduled that runs next
    c_seen,         \* <<>> before the check, then <<what is_schedule_paused returned>>
    c_notices,      \* the notices the scheduled run has sent
    c_runs,         \* who has invoked run_pipeline, in order
    c_started,      \* how many scheduled runs have started
    c_result        \* <<>> while it runs, then <<what run_scheduled returned>>

mvars == <<trends, news, all_topics, seen_topics, m_i>>
fvars == <<f_topics, f_pc, f_response, f_result>>
svars == <<s_topics, s_heap, s_pc, s_response, s_result>>
gvars == <<g_topic, g_pc, g_response, g_result, g_asked>>
tvars == <<t_scored_topics, t_heap, t_pc, t_result>>
pvars == <<p_pc, p_updates, p_trends, p_news, p_all_topics, p_pl_topics,
           p_scored_topics, p_heap,
           p_top_topic, p_scripts, p_result, p_sheet, p_calls, p_answers,
           p_faults>>
cvars == <<c_file, c_cmds, c_reply, c_pc, c_seen, c_notices, c_runs, c_started,
           c_result>>
vars == <<mvars, fvars, svars, gvars, tvars, pvars, cvars>>

----------------------------------------------------------------------------
(* Bounds of the model *)

\* the most records (trends plus news) one call of merge_and_deduplicate gets
MaxRecords == 4

\* filter_pl_topics gets 0..MaxFilterSmall topics, or the prompt limit plus
\* 0..MaxFilterOver topics
MaxFilterSmall == 3
MaxFilterOver == 2

\* the most lexemes in the text of an oracle's answer to the filter prompt
MaxFilterLexemes == 5

\* score_drama gets 0..MaxScoreSmall topics, or the prompt limit plus
\* 0..MaxScoreOver topics
MaxScoreSmall == 2
MaxScoreOver == 1

\* the most elements in the JSON array of an answer to the scoring prompt
MaxScoreItems == 2

\* the most elements in the JSON array of an answer to the script prompt
MaxScriptItems == 4

\* the most records a producer returns to run_pipeline
\* select_top_topic: the longest list given
MaxSelect == 4

MaxPipeTrends == 2
MaxPipeNews == 1

----------------------------------------------------------------------------
(* str.lower, str.strip, str.split *)

isspace(c) == c = " "

\* str.lower on one character
lower_char(c) ==
    CASE c = "A" -> "a"
      [] c = "B" -> "b"
      [] c = "Arsenal" -> "arsenal"
      [] OTHER -> c

\* str.lower
lower(t) == [i \in 1..Len(t) |-> lower_char(t[i])]

RECURSIVE lstrip(_)
lstrip(t) == IF t # <<>> /\ isspace(Head(t)) THEN lstrip(Tail(t)) ELSE t

RECURSIVE rstrip(_)
rstrip(t) ==
    IF t # <<>> /\ isspace(t[Len(t)]) THEN rstrip(SubSeq(t, 1, Len(t) - 1)) ELSE t

\* str.strip()
strip(t) == rstrip(lstrip(t))

\* the length of the longest prefix of t without whitespace
RECURSIVE token_len(_)
token_len(t) ==
    IF t = <<>> \/ isspace(Head(t)) THEN 0 ELSE 1 + token_len(Tail(t))

\* str.split(): the maximal runs of non-whitespace characters, in order
RECURSIVE split(_)
split(t) ==
    LET s == lstrip(t)
        n == token_len(s)
    IN  IF s = <<>> THEN <<>>
        ELSE <<SubSeq(s, 1, n)>> \o split(SubSeq(s, n + 1, Len(s)))

\* set(text.split())
words(t) == { split(t)[i] : i \in 1..Len(split(t)) }

----------------------------------------------------------------------------
(* _is_similar(text1, text2, threshold=0.6) *)

\* the default of the parameter threshold, 0.6, in thousandths
threshold == 600

\* intersection / union, in thousandths (rounded down; the comparison with
\* a whole number of thousandths is not changed by the rounding)
quotient(intersection, union) == (intersection * 1000) \div union

\* _is_similar with the threshold 0.5
is_similar_half(text1, text2) ==
    LET words1 == words(text1)
        words2 == words(text2)
        intersection == Cardinality(words1 \cap words2)
        union == Cardinality(words1 \cup words2)
    IN  IF words1 = {} \/ words2 = {} THEN FALSE
        ELSE IF union > 0 THEN quotient(intersection, union) >= 500
        ELSE FALSE

\* _is_similar with > in place of >=
is_similar_gt(text1, text2) ==
    LET words1 == words(text1)
        words2 == words(text2)
        intersection == Cardinality(words1 \cap words2)
        union == Cardinality(words1 \cup words2)
    IN  IF words1 = {} \/ words2 = {} THEN FALSE
        ELSE IF union > 0 THEN quotient(intersection, union) > threshold
        ELSE FALSE

is_similar(text1, text2) ==
    LET words1 == words(text1)
        words2 == words(text2)
        intersection == Cardinality(words1 \cap words2)
        union == Cardinality(words1 \cup words2)
    IN  IF words1 = {} \/ words2 = {} THEN FALSE
        ELSE IF union > 0 THEN quotient(intersection, union) >= threshold
        ELSE FALSE

----------------------------------------------------------------------------
(* merge_and_deduplicate(trends, news) *)

\* The texts the producers' records are drawn from.
TextPool ==
    { <<"a", " ", "b">>,
      <<"a", " ", "b", " ", "c">>,
      <<"a", " ", "b", " ", "c", " ", "d">>,
      <<"a", " ", "b", " ", "c", " ", "e">>,
      <<" ", "A", " ", "b", " ">>,
      <<"b", " ", " ", "a">>,
      <<>>,
      <<" ">> }

\* The example of the dedup rule: one trend and two news records.
ExampleTrends == << <<"Arsenal", " ", "lose", " ", "to", " ", "brighton">> >>
ExampleNews ==
    << <<"arsenal", " ", "lose", " ", "away", " ", "at", " ", "brighton">>,
       <<"chelsea", " ", "beat", " ", "brighton">> >>

SeqsUpTo(S, n) == UNION { [1..k -> S] : k \in 0..n }

\* the loop over trends without the test "not in seen_topics"
AbsorbTrend_noseen(st, trend, pos) ==
    LET topic_lower == strip(lower(trend))
    IN  IF topic_lower # <<>>
        THEN [ seen_topics |-> st.seen_topics \cup {topic_lower},
               all_topics |-> Append(st.all_topics,
                   [topic |-> trend, source |-> "twitter", pos |-> pos]) ]
        ELSE st

\* the loop over news with the exact comparison only
AbsorbArticle_exact(st, article, pos) ==
    LET topic == strip(article)
        topic_lower == lower(topic)
        is_duplicate == \E seen \in st.seen_topics : topic_lower = seen
    IN  IF ~is_duplicate /\ topic # <<>>
        THEN [ seen_topics |-> st.seen_topics \cup {topic_lower},
               all_topics |-> Append(st.all_topics,
                   [topic |-> topic, source |-> "news", pos |-> pos]) ]
        ELSE st

\* the loop over trends putting each new record in front of the list
AbsorbTrend_front(st, trend, pos) ==
    LET topic_lower == strip(lower(trend))
    IN  IF topic_lower # <<>> /\ topic_lower \notin st.seen_topics
        THEN [ seen_topics |-> st.seen_topics \cup {topic_lower},
               all_topics |-> <<[topic |-> trend, source |-> "twitter", pos |-> pos]>>
                                 \o st.all_topics ]
        ELSE st

\* One pass of the loop over trends: the record at position pos of the
\* input (trends first, then news) is appended when its key is new.
\* Each record of all_topics keeps the dictionary's "topic" and "source",
\* and pos, the position of the input record it was built from.
AbsorbTrend(st, trend, pos) ==
    LET topic_lower == strip(lower(trend))
    IN  IF topic_lower # <<>> /\ topic_lower \notin st.seen_topics
        THEN [ seen_topics |-> st.seen_topics \cup {topic_lower},
               all_topics |-> Append(st.all_topics,
                   [topic |-> trend, source |-> "twitter", pos |-> pos]) ]
        ELSE st

\* the loop over news remembering the key of a rejected record too
AbsorbArticle_rejected(st, article, pos) ==
    LET topic == strip(article)
        topic_lower == lower(topic)
        is_duplicate ==
            \E seen \in st.seen_topics :
                topic_lower = seen \/ is_similar(topic_lower, seen)
    IN  IF topic = <<>> THEN st
        ELSE IF ~is_duplicate
        THEN [ seen_topics |-> st.seen_topics \cup {topic_lower},
               all_topics |-> Append(st.all_topics,
                   [topic |-> topic, source |-> "news", pos |-> pos]) ]
        ELSE [ seen_topics |-> st.seen_topics \cup {topic_lower},
               all_topics |-> st.all_topics ]

\* One pass of the loop over news.
AbsorbArticle(st, article, pos) ==
    LET topic == strip(article)
        topic_lower == lower(topic)
        is_duplicate ==
            \E seen \in st.seen_topics :
                topic_lower = seen \/ is_similar(topic_lower, seen)
    IN  IF ~is_duplicate /\ topic # <<>>
        THEN [ seen_topics |-> st.seen_topics \cup {topic_lower},
               all_topics |-> Append(st.all_topics,
                   [topic |-> topic, source |-> "news", pos |-> pos]) ]
        ELSE st

\* no command has been handled and no scheduled run has started; the file
\* schedule_state.json does not exist
SchedIdle ==
    /\ c_file = [kind |-> "absent", state |-> <<>>]
    /\ c_cmds = <<>>
    /\ c_reply = "none"
    /\ c_pc = "idle"
    /\ c_seen = <<>>
    /\ c_notices = <<>>
    /\ c_runs = <<>>
    /\ c_started = 0
    /\ c_result = <<>>

\* no call of filter_pl_topics is under way
FilterIdle ==
    /\ f_topics = <<>>
    /\ f_pc = "idle"
    /\ f_response = "none"
    /\ f_result = <<>>

\* the dictionary result as run_pipeline creates it; None is <<>>, and a
\* value v that may be None is <<v>>
NewResult ==
    [ success |-> FALSE, topic |-> <<>>, score |-> <<>>, scripts |-> <<>>,
      error |-> <<>>, all_scored_topics |-> <<>>, twitter_count |-> 0,
      news_count |-> 0 ]

\* the oracle has not been asked
NoAnswers == [filter |-> <<>>, score |-> <<>>, scripts |-> <<>>]

\* no call of run_pipeline is under way
PipeIdle ==
    /\ p_pc = "idle"
    /\ p_updates = FALSE
    /\ p_trends = <<>>
    /\ p_news = <<>>
    /\ p_all_topics = <<>>
    /\ p_pl_topics = <<>>
    /\ p_scored_topics = <<>>
    /\ p_heap = <<>>
    /\ p_top_topic = <<>>
    /\ p_scripts = <<>>
    /\ p_result = NewResult
    /\ p_sheet = <<>>
    /\ p_calls = <<>>
    /\ p_answers = NoAnswers
    /\ p_faults = {}

\* no call of select_top_topic is under way
SelectIdle ==
    /\ t_scored_topics = <<>>
    /\ t_heap = <<>>
    /\ t_pc = "idle"
    /\ t_result = <<>>

\* no call of generate_scripts is under way
GenIdle ==
    /\ g_topic = <<>>
    /\ g_pc = "idle"
    /\ g_response = "none"
    /\ g_result = <<>>
    /\ g_asked = 0

\* no call of score_drama is under way
ScoreIdle ==
    /\ s_topics = <<>>
    /\ s_heap = <<>>
    /\ s_pc = "idle"
    /\ s_response = "none"
    /\ s_result = <<>>

\* no call of merge_and_deduplicate is under way
MergeIdle ==
    /\ trends = <<>>
    /\ news = <<>>
    /\ all_topics = <<>>
    /\ seen_topics = {}
    /\ m_i = 0

MergeInit ==
    /\ SchedIdle
    /\ SelectIdle
    /\ \/ /\ trends \in SeqsUpTo(TextPool, MaxRecords)
          /\ news \in SeqsUpTo(TextPool, MaxRecords - Len(trends))
       \/ /\ trends = ExampleTrends
          /\ news = ExampleNews
    /\ all_topics = <<>>
    /\ seen_topics = {}
    /\ m_i = 0
    /\ FilterIdle
    /\ ScoreIdle
    /\ GenIdle
    /\ PipeIdle

MergeTrend ==
    /\ m_i < Len(trends)
    /\ LET st == AbsorbTrend([seen_topics |-> seen_topics, all_topics |-> all_topics],
                             trends[m_i + 1], m_i + 1)
       IN  /\ seen_topics' = st.seen_topics
           /\ all_topics' = st.all_topics
    /\ m_i' = m_i + 1
    /\ UNCHANGED <<trends, news, fvars, svars, gvars, pvars, tvars, cvars>>

MergeArticle ==
    /\ m_i >= Len(trends)
    /\ m_i < Len(trends) + Len(news)
    /\ LET st == AbsorbArticle([seen_topics |-> seen_topics, all_topics |-> all_topics],
                               news[m_i - Len(trends) + 1], m_i + 1)
       IN  /\ seen_topics' = st.seen_topics
           /\ all_topics' = st.all_topics
    /\ m_i' = m_i + 1
    /\ UNCHANGED <<trends, news, fvars, svars, gvars, pvars, tvars, cvars>>

MergeNext == MergeTrend \/ MergeArticle

MergeSpec == MergeInit /\ [][MergeNext]_vars

----------------------------------------------------------------------------
(* Properties of merge_and_deduplicate *)

\* merge_and_deduplicate has returned
MergeDone == m_i = Len(trends) + Len(news)

\* the input record at position pos (trends first, then news)
InputAt(pos) == IF pos <= Len(trends) THEN trends[pos] ELSE news[pos - Len(trends)]

IsTrendPos(pos) == pos <= Len(trends)

\* the normalized key of a text: trimmed and lower-cased
NormKey(t) == lower(strip(t))

\* the whitespace-split tokens of a text, as a set
TokenSet(t) ==
    { SubSeq(t, i, j) : <<i, j>> \in
        { ij \in (1..Len(t)) \X (1..Len(t)) :
            /\ ij[1] <= ij[2]
            /\ \A k \in ij[1]..ij[2] : t[k] # " "
            /\ (ij[1] = 1 \/ t[ij[1] - 1] = " ")
            /\ (ij[2] = Len(t) \/ t[ij[2] + 1] = " ") } }

\* Jaccard similarity of two token sets is at least 0.6
Jaccard06(A, B) ==
    /\ A # {} /\ B # {}
    /\ 10 * Cardinality(A \cap B) >= 6 * Cardinality(A \cup B)

\* two texts are the same topic
SameTopic(t, u) ==
    \/ NormKey(t) = NormKey(u)
    \/ Jaccard06(TokenSet(NormKey(t)), TokenSet(NormKey(u)))

InOutput(pos) == \E i \in 1..Len(all_topics) : all_topics[i].pos = pos

\* p and q are input positions of two records with the same non-empty
\* normalized text, p the first record of the input with that text
FirstAndLater(p, q) ==
    /\ p < q
    /\ NormKey(InputAt(p)) # <<>>
    /\ NormKey(InputAt(p)) = NormKey(InputAt(q))
    /\ \A r \in 1..(p - 1) : NormKey(InputAt(r)) # NormKey(InputAt(p))

\* C3 as stated: of the records with one non-empty normalized text, the
\* first-encountered is in the output and no later one is.
C3_FirstSurvivesAlways ==
    MergeDone =>
        \A p, q \in 1..(Len(trends) + Len(news)) :
            FirstAndLater(p, q) => InOutput(p) /\ ~InOutput(q)

\* C3 amended: no later record with the same normalized text is in the
\* output, and the first-encountered one is in the output exactly when it
\* is a trend record or is similar to no record accepted before it.
C3_OnlyFirstCanSurvive ==
    MergeDone =>
        \A p, q \in 1..(Len(trends) + Len(news)) :
            FirstAndLater(p, q) =>
                /\ ~InOutput(q)
                /\ InOutput(p) <=>
                     \/ IsTrendPos(p)
                     \/ ~\E i \in 1..Len(all_topics) :
                            /\ all_topics[i].pos < p
                            /\ SameTopic(all_topics[i].topic, InputAt(p))

\* a trend and a later news record share a text and the trend survived; and
\* two news records share a text and the first of them was dropped
C3_Witness ==
    /\ MergeDone
    /\ \E p, q \in 1..(Len(trends) + Len(news)) :
         FirstAndLater(p, q) /\ ~IsTrendPos(p) /\ ~InOutput(p)
    /\ \E p, q \in 1..(Len(trends) + Len(news)) :
         FirstAndLater(p, q) /\ IsTrendPos(p) /\ ~IsTrendPos(q) /\ InOutput(p)

\* the news record the loop examines next, and whether a seen key equals
\* it or is similar to it
NextArticle == news[m_i - Len(trends) + 1]
NextArticleIsDup ==
    \E s \in seen_topics :
        \/ lower(strip(NextArticle)) = s
        \/ Jaccard06(TokenSet(lower(strip(NextArticle))), TokenSet(s))

\* C4: a news record with non-empty trimmed text is dropped if and only if
\* its lower-cased text equals a seen key or is Jaccard >= 0.6 similar to a
\* seen key; otherwise it is kept and its key is added to the seen set.
C4_NewsDropRule ==
    [][ (MergeArticle /\ strip(NextArticle) # <<>>) =>
          IF NextArticleIsDup
          THEN all_topics' = all_topics /\ seen_topics' = seen_topics
          ELSE /\ Len(all_topics') = Len(all_topics) + 1
               /\ SubSeq(all_topics', 1, Len(all_topics)) = all_topics
               /\ all_topics'[Len(all_topics')].pos = m_i + 1
               /\ all_topics'[Len(all_topics')].topic = strip(NextArticle)
               /\ seen_topics' = seen_topics \cup {lower(strip(NextArticle))}
      ]_vars

\* a news record was dropped for similarity at exactly 0.6 with a seen key
\* that differs from its own, and another news record was kept
C4_Witness ==
    /\ MergeDone
    /\ \E q \in (Len(trends) + 1)..(Len(trends) + Len(news)) :
         /\ strip(InputAt(q)) # <<>>
         /\ ~InOutput(q)
         /\ NormKey(InputAt(q)) \notin seen_topics
         /\ \E s \in seen_topics :
              LET A == TokenSet(NormKey(InputAt(q)))
                  B == TokenSet(s)
              IN  10 * Cardinality(A \cap B) = 6 * Cardinality(A \cup B)
    /\ \E q \in (Len(trends) + 1)..(Len(trends) + Len(news)) : InOutput(q)

IsExample == trends = ExampleTrends /\ news = ExampleNews

\* C5 as stated: with the trend "arsenal lose to brighton" seen, the news
\* record "arsenal lose away at brighton" is dropped and "chelsea beat
\* brighton" is kept.
C5_ExampleDropsNearDuplicate ==
    (IsExample /\ MergeDone) => ~InOutput(2) /\ InOutput(3)

\* C5 amended: both news records of the example are kept (the first shares
\* 3 of 6 tokens with the trend, a similarity of 0.5).
C5_ExampleKeepsBoth ==
    (IsExample /\ MergeDone) =>
        /\ InOutput(1) /\ InOutput(2) /\ InOutput(3)
        /\ Len(all_topics) = 3

C5_Witness ==
    /\ IsExample
    /\ MergeDone
    /\ seen_topics # {}

\* C6 as stated: no two distinct records of the output are the same topic.
C6_OutputPairwiseDistinct ==
    MergeDone =>
        \A i, j \in 1..Len(all_topics) :
            i # j => ~SameTopic(all_topics[i].topic, all_topics[j].topic)

\* C6 amended: no two records of the output have the same normalized key,
\* and no news record of the output is similar to a record before it.
C6_OutputDistinctKeys ==
    MergeDone =>
        \A i, j \in 1..Len(all_topics) :
            i < j =>
                /\ NormKey(all_topics[i].topic) # NormKey(all_topics[j].topic)
                /\ all_topics[j].source = "news" =>
                     ~SameTopic(all_topics[i].topic, all_topics[j].topic)

\* the output holds two similar trend records and a news record, and a
\* news record was dropped
C6_Witness ==
    /\ MergeDone
    /\ \E i, j \in 1..Len(all_topics) :
         /\ i < j
         /\ all_topics[j].source = "twitter"
         /\ SameTopic(all_topics[i].topic, all_topics[j].topic)
    /\ \E j \in 1..Len(all_topics) : all_topics[j].source = "news"
    /\ \E q \in (Len(trends) + 1)..(Len(trends) + Len(news)) :
         strip(InputAt(q)) # <<>> /\ ~InOutput(q)

\* a trend record and a news record of the input with one non-empty key
TrendNewsConflict(p, q) ==
    /\ p \in 1..Len(trends)
    /\ q \in (Len(trends) + 1)..(Len(trends) + Len(news))
    /\ NormKey(InputAt(p)) # <<>>
    /\ NormKey(InputAt(p)) = NormKey(InputAt(q))

\* C20: the output of merge_and_deduplicate lists every kept trend record
\* before every kept news record, each group in the order of its input;
\* and when a trend record and a news record have the same normalized key,
\* the record kept for that key is the trend record (the first trend
\* record of that key), never the news record.
C20_TrendsFirstAndWin ==
    MergeDone =>
        /\ \A i, j \in 1..Len(all_topics) :
              i < j => all_topics[i].pos < all_topics[j].pos
        /\ \A i \in 1..Len(all_topics) :
              all_topics[i].source =
                 IF IsTrendPos(all_topics[i].pos) THEN "twitter" ELSE "news"
        /\ \A p, q \in 1..(Len(trends) + Len(news)) :
              TrendNewsConflict(p, q) =>
                 /\ ~InOutput(q)
                 /\ \E p0 \in 1..p :
                       /\ NormKey(InputAt(p0)) = NormKey(InputAt(p))
                       /\ InOutput(p0)
                       /\ \A p1 \in 1..(p0 - 1) :
                             NormKey(InputAt(p1)) # NormKey(InputAt(p))

\* two trend records and a news record were kept, and a news record that
\* has the key of a trend record was dropped
C20_Witness ==
    /\ MergeDone
    /\ \E i, j, k \in 1..Len(all_topics) :
          /\ i < j /\ j < k
          /\ all_topics[j].source = "twitter"
          /\ all_topics[k].source = "news"
    /\ \E p, q \in 1..(Len(trends) + Len(news)) :
          /\ TrendNewsConflict(p, q)
          /\ InputAt(p) # InputAt(q)
          /\ InOutput(p)
          /\ ~InOutput(q)

----------------------------------------------------------------------------
(* The oracle's answers.  The text of an answer is a sequence of lexemes,   *)
(* with whitespace between them: "[", "]", ",", a number, or "w", any other *)
(* word of prose.                                                           *)

LB == [k |-> "[", v |-> 0]
RB == [k |-> "]", v |-> 0]
COMMA == [k |-> ",", v |-> 0]
PROSE == [k |-> "w", v |-> 0]
NUM(n) == [k |-> "num", v |-> n]

\* model.generate_content(prompt) raised, or response.text did
Raised == [raises |-> TRUE, text |-> <<>>]
Answer(text) == [raises |-> FALSE, text |-> text]

----------------------------------------------------------------------------
(* filter_pl_topics(topics) *)

\* topics[:50], the topics listed in the prompt
FILTER_PROMPT_LIMIT == 50

Min(a, b) == IF a <= b THEN a ELSE b

\* the lexeme can stand inside a match of [\d,\s]*
in_index_class(x) == x.k = "num" \/ x.k = ","

\* how many lexemes from the start of t are in the class [\d,\s]
RECURSIVE index_run(_)
index_run(t) ==
    IF t = <<>> \/ ~in_index_class(Head(t)) THEN 0 ELSE 1 + index_run(Tail(t))

\* re.search(r'\[[\d,\s]*\]', text) from position p on: the leftmost "["
\* followed by lexemes of the class and then "]"
RECURSIVE re_search_indices(_, _)
re_search_indices(t, p) ==
    IF p > Len(t) THEN [found |-> FALSE, group |-> <<>>]
    ELSE IF t[p] = LB
         THEN LET n == index_run(SubSeq(t, p + 1, Len(t)))
              IN  IF p + n + 1 <= Len(t) /\ t[p + n + 1] = RB
                  THEN [found |-> TRUE, group |-> SubSeq(t, p, p + n + 1)]
                  ELSE re_search_indices(t, p + 1)
         ELSE re_search_indices(t, p + 1)

\* json.loads of a match: "[" n "," n ... "]" is a list of numbers, anything
\* else raises
json_loads_indices(group) ==
    LET body == SubSeq(group, 2, Len(group) - 1)
        wellformed ==
            \/ body = <<>>
            \/ /\ Len(body) % 2 = 1
               /\ \A i \in 1..Len(body) :
                    IF i % 2 = 1 THEN body[i].k = "num" ELSE body[i].k = ","
    IN  IF wellformed
        THEN [raises |-> FALSE,
              value |-> [j \in 1..((Len(body) + 1) \div 2) |-> body[2 * j - 1].v]]
        ELSE [raises |-> TRUE, value |-> <<>>]

\* [topics[i-1] for i in indices if 1 <= i <= len(topics)]
RECURSIVE pick_indices(_, _)
pick_indices(topics, indices) ==
    IF indices = <<>> THEN <<>>
    ELSE LET i == Head(indices)
         IN  (IF 1 <= i /\ i <= Len(topics) THEN <<topics[i]>> ELSE <<>>)
             \o pick_indices(topics, Tail(indices))

\* the body of filter_pl_topics after "if not topics", given the oracle's
\* answer, with the handler of a JSON error returning nothing
filter_with_oracle_closed(topics, response) ==
    IF response.raises THEN topics
    ELSE LET match == re_search_indices(response.text, 1)
         IN  IF match.found
             THEN LET indices == json_loads_indices(match.group)
                  IN  IF indices.raises THEN <<>>
                      ELSE pick_indices(topics, indices.value)
             ELSE topics

\* the body of filter_pl_topics after "if not topics", given the oracle's
\* answer
filter_with_oracle(topics, response) ==
    IF response.raises THEN topics
    ELSE LET match == re_search_indices(response.text, 1)
         IN  IF match.found
             THEN LET indices == json_loads_indices(match.group)
                  IN  IF indices.raises THEN topics
                      ELSE pick_indices(topics, indices.value)
             ELSE topics

\* the numbers an answer to the filter prompt may hold
FilterNumbers == {0, 1, 2, FILTER_PROMPT_LIMIT + 1}
FilterLexemes == {LB, RB, COMMA, PROSE} \cup { NUM(n) : n \in FilterNumbers }
FilterResponses ==
    {Raised} \cup { Answer(t) : t \in SeqsUpTo(FilterLexemes, MaxFilterLexemes) }

FilterSizes ==
    (0..MaxFilterSmall)
    \cup { FILTER_PROMPT_LIMIT + k : k \in 0..MaxFilterOver }

FilterInit ==
    /\ SchedIdle
    /\ SelectIdle
    /\ MergeIdle
    /\ PipeIdle
    /\ ScoreIdle
    /\ GenIdle
    /\ \E n \in FilterSizes : f_topics = [i \in 1..n |-> i]
    /\ f_pc = "call"
    /\ f_response = "none"
    /\ f_result = <<>>

\* if not topics: return []
FilterEmpty ==
    /\ f_pc = "call"
    /\ f_topics = <<>>
    /\ f_pc' = "returned"
    /\ f_result' = <<>>
    /\ UNCHANGED <<f_topics, f_response, mvars, svars, gvars, pvars, tvars, cvars>>

\* the oracle is consulted and the function returns
FilterCall ==
    /\ f_pc = "call"
    /\ f_topics # <<>>
    /\ \E response \in FilterResponses :
         /\ f_response' = response
         /\ f_result' = filter_with_oracle(f_topics, response)
    /\ f_pc' = "returned"
    /\ UNCHANGED <<f_topics, mvars, svars, gvars, pvars, tvars, cvars>>

FilterNext == FilterEmpty \/ FilterCall

FilterSpec == FilterInit /\ [][FilterNext]_vars

----------------------------------------------------------------------------
(* Properties of filter_pl_topics *)

FilterReturned == f_pc = "returned"

\* lexemes p..q of t are "[", numbers and commas only, "]"
IndexListAt(t, p, q) ==
    /\ p < q
    /\ t[p].k = "["
    /\ t[q].k = "]"
    /\ \A k \in (p + 1)..(q - 1) : t[k].k \in {"num", ","}

\* the text contains a bracketed list of integers
HasIndexList(t) == \E p, q \in 1..Len(t) : IndexListAt(t, p, q)

\* the first bracketed list of the text, without its brackets
FirstIndexList(t) ==
    LET pq == CHOOSE pq \in (1..Len(t)) \X (1..Len(t)) :
                  /\ IndexListAt(t, pq[1], pq[2])
                  /\ \A p, q \in 1..Len(t) : IndexListAt(t, p, q) => pq[1] <= p
    IN  SubSeq(t, pq[1] + 1, pq[2] - 1)

\* numbers separated by single commas (or nothing): valid JSON inside "[ ]"
IsNumberList(body) ==
    \/ body = <<>>
    \/ /\ body[1].k = "num"
       /\ body[Len(body)].k = "num"
       /\ \A i \in 1..(Len(body) - 1) : body[i].k # body[i + 1].k

\* the answer gives no list of indices: the call raised, the text has no
\* bracketed list of integers, or the matched text is not valid JSON
NoIndicesFrom(response) ==
    \/ response.raises
    \/ ~HasIndexList(response.text)
    \/ ~IsNumberList(FirstIndexList(response.text))

\* C7: the list returned is a subsequence of the input: its records are
\* input records, in the input's relative order, none of them twice.
C7_ResultIsSubsequence ==
    FilterReturned =>
        /\ \A k \in 1..Len(f_result) :
             \E i \in 1..Len(f_topics) : f_topics[i] = f_result[k]
        /\ \A j, k \in 1..Len(f_result) : j < k => f_result[j] < f_result[k]

\* C8: given more than 50 topics and an answer that parses, no topic at a
\* position beyond the 50th is returned.
C8_NothingBeyondPromptLimit ==
    ( /\ FilterReturned
      /\ Len(f_topics) > FILTER_PROMPT_LIMIT
      /\ ~NoIndicesFrom(f_response) ) =>
        \A k \in 1..Len(f_result) : f_result[k] <= FILTER_PROMPT_LIMIT

\* C9: on a non-empty input, when the oracle raises, the text has no
\* bracketed list of integers or the matched text is not valid JSON, the
\* filter returns the whole input in its order.
C9_FailOpen ==
    (FilterReturned /\ f_topics # <<>> /\ NoIndicesFrom(f_response)) =>
        f_result = f_topics

\* the oracle answered with a bracketed list that is not valid JSON and the
\* filter returned all of its two or more topics
C9_Witness ==
    /\ FilterReturned
    /\ Len(f_topics) >= 2
    /\ ~f_response.raises
    /\ HasIndexList(f_response.text)
    /\ ~IsNumberList(FirstIndexList(f_response.text))
    /\ f_result = f_topics

----------------------------------------------------------------------------
(* Answers holding a JSON array.  The lexemes of the text are "[", "]",    *)
(* ",", "w" (a word of prose) and "v", a JSON value other than an array:   *)
(* an object or a scalar, whose content is the lexeme's field v.           *)

Tok(kind, payload) == [k |-> kind, v |-> payload]

\* the positions of the lexemes of kind `kind` in t
Positions(t, kind) == { i \in 1..Len(t) : t[i].k = kind }

SetMin(S) == CHOOSE x \in S : \A y \in S : x <= y
SetMax(S) == CHOOSE x \in S : \A y \in S : x >= y

\* re.search(r'\[.*\]', text, re.DOTALL): from the first "[" to the last
\* "]" after it
re_search_array(t) ==
    LET opens == Positions(t, "[")
        closes == Positions(t, "]")
    IN  IF opens # {} /\ closes # {} /\ SetMin(opens) < SetMax(closes)
        THEN [found |-> TRUE, group |-> SubSeq(t, SetMin(opens), SetMax(closes))]
        ELSE [found |-> FALSE, group |-> <<>>]

\* The JSON decoder on lexemes.  json_value reads one value at position p,
\* json_elements the elements of an array up to its "]".  Both give the
\* position after what they read; `nested` is the value an inner array
\* counts as in the list returned.
RECURSIVE json_value(_, _, _)
RECURSIVE json_elements(_, _, _)
json_value(t, p, nested) ==
    IF p > Len(t) THEN [ok |-> FALSE, next |-> p, vals |-> <<>>]
    ELSE IF t[p].k = "v" THEN [ok |-> TRUE, next |-> p + 1, vals |-> <<t[p].v>>]
    ELSE IF t[p].k = "["
         THEN IF p + 1 <= Len(t) /\ t[p + 1].k = "]"
              THEN [ok |-> TRUE, next |-> p + 2, vals |-> <<nested>>]
              ELSE LET inner == json_elements(t, p + 1, nested)
                   IN  [ok |-> inner.ok, next |-> inner.next, vals |-> <<nested>>]
    ELSE [ok |-> FALSE, next |-> p, vals |-> <<>>]

json_elements(t, p, nested) ==
    LET first == json_value(t, p, nested)
    IN  IF ~first.ok \/ first.next > Len(t)
        THEN [ok |-> FALSE, next |-> p, vals |-> <<>>]
        ELSE IF t[first.next].k = "]"
             THEN [ok |-> TRUE, next |-> first.next + 1, vals |-> first.vals]
        ELSE IF t[first.next].k = ","
             THEN LET rest == json_elements(t, first.next + 1, nested)
                  IN  [ok |-> rest.ok, next |-> rest.next,
                       vals |-> first.vals \o rest.vals]
        ELSE [ok |-> FALSE, next |-> p, vals |-> <<>>]

\* json.loads(match.group()) on a match of \[.*\]: the list of the array's
\* elements, or an error
json_loads_array(group, nested) ==
    LET r == IF Len(group) >= 2 /\ group[2].k = "]"
             THEN [ok |-> TRUE, next |-> 3, vals |-> <<>>]
             ELSE json_elements(group, 2, nested)
    IN  IF r.ok /\ r.next = Len(group) + 1
        THEN [raises |-> FALSE, value |-> r.vals]
        ELSE [raises |-> TRUE, value |-> <<>>]

\* "[" items separated by "," "]"
RECURSIVE CommaJoin(_, _)
CommaJoin(items, filler) ==
    IF items = <<>> THEN <<>>
    ELSE IF Len(items) = 1 THEN <<Tok("v", items[1])>>
    ELSE <<Tok("v", items[1]), Tok(",", filler)>> \o CommaJoin(Tail(items), filler)

ArrayText(items, filler) ==
    <<Tok("[", filler)>> \o CommaJoin(items, filler) \o <<Tok("]", filler)>>

\* The texts an oracle may answer with, given the arrays it may mean: the
\* array alone, the array inside prose, the array with a trailing comma,
\* the array inside another array, and short texts without any value.
ArrayAnswers(itemseqs, filler, barelen) ==
    LET W == Tok("w", filler)
        bare == SeqsUpTo({Tok("[", filler), Tok("]", filler), Tok(",", filler), W},
                         barelen)
    IN  {Raised}
        \cup { Answer(t) : t \in bare }
        \cup { Answer(ArrayText(items, filler)) : items \in itemseqs }
        \cup { Answer(<<W>> \o ArrayText(items, filler) \o <<W>>) : items \in itemseqs }
        \cup { Answer(<<Tok("[", filler)>> \o CommaJoin(items, filler)
                       \o <<Tok(",", filler), Tok("]", filler)>>) : items \in itemseqs }
        \cup { Answer(<<Tok("[", filler)>> \o ArrayText(items, filler)
                       \o <<Tok("]", filler)>>) : items \in itemseqs }

----------------------------------------------------------------------------
(* score_drama(topics) *)

\* topics[:20], the topics listed in the prompt
SCORE_PROMPT_LIMIT == 20

\* the score given to a topic the oracle did not score
DEFAULT_SCORE == 5

\* A field of a JSON object: absent, an integer n, or "str", a value that
\* is no number (a string).
Absent == [k |-> "absent", n |-> 0]
IntVal(n) == [k |-> "int", n |-> n]
StrVal == [k |-> "str", n |-> 0]

\* an element of the array that is no JSON object
NonDict == [dict |-> FALSE, index |-> Absent, score |-> Absent]
ScoreObject(index, score) == [dict |-> TRUE, index |-> index, score |-> score]

\* a dictionary of topics before scoring: no "score" key
Unscored == [score |-> [k |-> "unset", n |-> 0], score_breakdown |-> "unset"]

\* for topic in topics: topic["score"] = 5; topic["score_breakdown"] = why
all_default(heap, topics, why) ==
    [r \in DOMAIN heap |->
        IF \E i \in 1..Len(topics) : topics[i] = r
        THEN [score |-> IntVal(DEFAULT_SCORE), score_breakdown |-> why]
        ELSE heap[r]]

\* a default given to the topics of the prompt only
fill_default_listed(heap, topics) ==
    [r \in DOMAIN heap |->
        IF (\E i \in 1..Min(SCORE_PROMPT_LIMIT, Len(topics)) : topics[i] = r)
           /\ heap[r].score.k = "unset"
        THEN [score |-> IntVal(DEFAULT_SCORE), score_breakdown |-> "Default score"]
        ELSE heap[r]]

\* for topic in topics: if "score" not in topic: ...
fill_default(heap, topics) ==
    [r \in DOMAIN heap |->
        IF (\E i \in 1..Len(topics) : topics[i] = r) /\ heap[r].score.k = "unset"
        THEN [score |-> IntVal(DEFAULT_SCORE), score_breakdown |-> "Default score"]
        ELSE heap[r]]

\* for score_item in scores: ...  (raises on an element without .get, and
\* on an "index" that is no number)
RECURSIVE apply_scores(_, _, _)
apply_scores(heap, topics, scores) ==
    IF scores = <<>> THEN [raises |-> FALSE, heap |-> heap]
    ELSE LET score_item == Head(scores)
         IN  IF ~score_item.dict \/ score_item.index.k = "str"
             THEN [raises |-> TRUE, heap |-> heap]
             ELSE LET idx == (IF score_item.index.k = "absent" THEN 0
                              ELSE score_item.index.n) - 1
                      new == [score |-> IF score_item.score.k = "absent"
                                        THEN IntVal(DEFAULT_SCORE)
                                        ELSE score_item.score,
                              score_breakdown |-> "oracle"]
                  IN  apply_scores(
                          IF 0 <= idx /\ idx < Len(topics)
                          THEN [heap EXCEPT ![topics[idx + 1]] = new]
                          ELSE heap,
                          topics, Tail(scores))

\* the body of score_drama after "if not topics", given the oracle's
\* answer: the dictionaries after the call
score_with_oracle(heap, topics, response) ==
    IF response.raises THEN all_default(heap, topics, "Default score (error)")
    ELSE LET match == re_search_array(response.text)
         IN  IF match.found
             THEN LET scores == json_loads_array(match.group, NonDict)
                  IN  IF scores.raises
                      THEN all_default(heap, topics, "Default score (error)")
                      ELSE LET applied == apply_scores(heap, topics, scores.value)
                           IN  IF applied.raises
                               THEN all_default(applied.heap, topics,
                                                "Default score (error)")
                               ELSE fill_default(applied.heap, topics)
             ELSE all_default(heap, topics, "Default score (parsing failed)")

\* score_drama returning topics[:20], the topics the prompt lists
score_drama_listed(heap, topics, response) ==
    IF topics = <<>> THEN [heap |-> heap, result |-> <<>>]
    ELSE [heap |-> score_with_oracle(heap, topics, response),
          result |-> SubSeq(topics, 1, Min(SCORE_PROMPT_LIMIT, Len(topics)))]

\* score_drama(topics), given the oracle's answer: the dictionaries after
\* the call and the list returned.  Every return statement but the first
\* returns the list object topics; the first returns a new empty list.
score_drama(heap, topics, response) ==
    IF topics = <<>> THEN [heap |-> heap, result |-> <<>>]
    ELSE [heap |-> score_with_oracle(heap, topics, response),
          result |-> topics]

\* what the oracle may put in an element of the scoring array
ScoreIndexValues ==
    {Absent, StrVal}
    \cup { IntVal(n) : n \in {0, 1, 2, SCORE_PROMPT_LIMIT + 1, SCORE_PROMPT_LIMIT + 2} }
ScoreScoreValues == {Absent, StrVal} \cup { IntVal(n) : n \in {0, 1, 10, 11} }
ScoreItems ==
    {NonDict}
    \cup { ScoreObject(i, sc) : i \in ScoreIndexValues, sc \in ScoreScoreValues }
ScoreResponses ==
    ArrayAnswers(SeqsUpTo(ScoreItems, MaxScoreItems), NonDict, MaxScoreItems)

\* The lists of topics given: n distinct dictionaries, or (as the filter
\* can return one dictionary twice) n entries the last of which is the
\* first dictionary again.
ScoreSizes ==
    (0..MaxScoreSmall) \cup { SCORE_PROMPT_LIMIT + k : k \in 0..MaxScoreOver }
ScoreInputs ==
    { [i \in 1..n |-> i] : n \in ScoreSizes }
    \cup { [i \in 1..n |-> IF i = n THEN 1 ELSE i] : n \in 2..MaxScoreSmall }

ScoreInit ==
    /\ SchedIdle
    /\ SelectIdle
    /\ MergeIdle
    /\ PipeIdle
    /\ FilterIdle
    /\ GenIdle
    /\ s_topics \in ScoreInputs
    /\ s_heap = [r \in 1..Len(s_topics) |-> Unscored]
    /\ s_pc = "call"
    /\ s_response = "none"
    /\ s_result = <<>>

\* if not topics: return []
ScoreEmpty ==
    /\ s_pc = "call"
    /\ s_topics = <<>>
    /\ s_result' = score_drama(s_heap, s_topics, Raised).result
    /\ s_pc' = "returned"
    /\ UNCHANGED <<s_topics, s_heap, s_response, mvars, fvars, gvars, pvars, tvars, cvars>>

\* the oracle is consulted, the dictionaries are updated in place and the
\* function returns topics
ScoreCall ==
    /\ s_pc = "call"
    /\ s_topics # <<>>
    /\ \E response \in ScoreResponses :
         /\ s_response' = response
         /\ s_heap' = score_drama(s_heap, s_topics, response).heap
         /\ s_result' = score_drama(s_heap, s_topics, response).result
    /\ s_pc' = "returned"
    /\ UNCHANGED <<s_topics, mvars, fvars, gvars, pvars, tvars, cvars>>

ScoreNext == ScoreEmpty \/ ScoreCall

ScoreSpec == ScoreInit /\ [][ScoreNext]_vars

----------------------------------------------------------------------------
(* Properties of score_drama *)

ScoreReturned == s_pc = "returned"

\* C1: after score_drama returns, every topic of the list returned has a
\* score that is an integer in 1..10, whatever the oracle did.
C1_ScoresInRange ==
    ScoreReturned =>
        \A i \in 1..Len(s_topics) :
            /\ s_heap[s_topics[i]].score.k = "int"
            /\ s_heap[s_topics[i]].score.n \in 1..10


\* C11: score_drama never drops, adds or reorders items: whatever the list
\* given and whatever the oracle did, the list returned has the length of
\* the list given and holds the same records at the same positions.
C11_SameListReturned ==
    ScoreReturned => s_result = s_topics

\* a list longer than the prompt lists was scored from a parsed answer,
\* one of its topics by the oracle and one by default
C11_Witness ==
    /\ ScoreReturned
    /\ Len(s_topics) > SCORE_PROMPT_LIMIT
    /\ ~s_response.raises
    /\ \E i, j \in 1..Len(s_topics) :
          /\ s_heap[s_topics[i]].score_breakdown = "oracle"
          /\ s_heap[s_topics[j]].score_breakdown = "Default score"
    /\ Len(s_result) = Len(s_topics)

\* the array the oracle's answer parses to
ParsedScores ==
    json_loads_array(re_search_array(s_response.text).group, NonDict)

\* the oracle answered, an array was matched and json.loads accepted it
ScoresParsed ==
    /\ ScoreReturned
    /\ s_topics # <<>>
    /\ ~s_response.raises
    /\ re_search_array(s_response.text).found
    /\ ~ParsedScores.raises

\* every element of the array is an object whose index, if any, is a number
ScoresApplicable ==
    \A k \in 1..Len(ParsedScores.value) :
        ParsedScores.value[k].dict /\ ParsedScores.value[k].index.k # "str"

\* the elements of the array that address position i of topics
Addressing(i) ==
    { k \in 1..Len(ParsedScores.value) :
        /\ ParsedScores.value[k].dict
        /\ ParsedScores.value[k].index = IntVal(i) }

\* the elements that address the dictionary at position i through any of
\* the positions it has in topics
AddressingRecord(i) ==
    UNION { Addressing(j) : j \in { j \in 1..Len(s_topics) : s_topics[j] = s_topics[i] } }

\* the score element k gives: its "score", or 5 when it has none
OracleScore(k) ==
    IF ParsedScores.value[k].score.k = "absent" THEN IntVal(5)
    ELSE ParsedScores.value[k].score

----------------------------------------------------------------------------
(* generate_scripts(topic) and _get_fallback_scripts(topic) *)

\* scripts[:3]
MAX_SCRIPTS == 3

\* topic_name[:30]
FALLBACK_NAME_CHARS == 30

\* a JSON object with the three keys of a script
Script(hook, premise, punchline) ==
    [dict |-> TRUE, hook |-> hook, premise |-> premise, punchline |-> punchline]

\* an element of the array that is no JSON object, and an object without
\* any of the three keys
NonDictScript == [dict |-> FALSE, hook |-> <<>>, premise |-> <<>>, punchline |-> <<>>]
EmptyObject == Script(<<>>, <<>>, <<>>)
OracleScript == Script(<<"oracle hook">>, <<"oracle premise">>, <<"oracle punchline">>)

\* s[:n]
Take(s, n) == SubSeq(s, 1, Min(n, Len(s)))

\* fallback scripts of which the third is missing
get_fallback_scripts_two(topic_name) ==
    LET name == SubSeq(topic_name, 1, Min(FALLBACK_NAME_CHARS, Len(topic_name)))
    IN  << Script(<<"POV: You just saw ">> \o name \o <<"...">>,
                  <<"Show reaction from different fan perspectives">>,
                  <<"The beautiful game innit">>),
           Script(<<"Football Twitter right now:">>,
                  <<"Compilation of reactions to ">> \o name,
                  <<"And they say football is just a game">>) >>

\* _get_fallback_scripts(topic), with topic_name the text of the topic
get_fallback_scripts(topic_name) ==
    LET name == Take(topic_name, FALLBACK_NAME_CHARS)
    IN  << Script(<<"POV: You just saw ">> \o name \o <<"...">>,
                  <<"Show reaction from different fan perspectives">>,
                  <<"The beautiful game innit">>),
           Script(<<"Football Twitter right now:">>,
                  <<"Compilation of reactions to ">> \o name,
                  <<"And they say football is just a game">>),
           Script(<<"Me explaining to my non-football friends:">>,
                  <<"Dramatic retelling of ">> \o name,
                  <<"You wouldn't understand">>) >>

\* a generate_scripts that returns nothing when the oracle call raises
generate_with_oracle_empty(topic_name, response) ==
    IF response.raises THEN <<>>
    ELSE LET match == re_search_array(response.text)
         IN  IF match.found
             THEN LET scripts == json_loads_array(match.group, NonDictScript)
                  IN  IF scripts.raises THEN get_fallback_scripts(topic_name)
                      ELSE Take(scripts.value, MAX_SCRIPTS)
             ELSE get_fallback_scripts(topic_name)

\* the try block of generate_scripts, given the oracle's answer
generate_with_oracle(topic_name, response) ==
    IF response.raises THEN get_fallback_scripts(topic_name)
    ELSE LET match == re_search_array(response.text)
         IN  IF match.found
             THEN LET scripts == json_loads_array(match.group, NonDictScript)
                  IN  IF scripts.raises THEN get_fallback_scripts(topic_name)
                      ELSE Take(scripts.value, MAX_SCRIPTS)
             ELSE get_fallback_scripts(topic_name)

ScriptItems == {NonDictScript, EmptyObject, OracleScript}
ScriptResponses ==
    ArrayAnswers(SeqsUpTo(ScriptItems, MaxScriptItems), NonDictScript, 2)

\* the topics scripts are asked for: short texts and one of 31 characters
GenTopics ==
    { <<"a", " ", "b">>,
      <<"Arsenal", " ", "bottle", " ", "it", " ", "again">>,
      [i \in 1..(FALLBACK_NAME_CHARS + 1) |-> IF i % 2 = 1 THEN "a" ELSE "b"] }

GenInit ==
    /\ SchedIdle
    /\ SelectIdle
    /\ MergeIdle
    /\ PipeIdle
    /\ FilterIdle
    /\ ScoreIdle
    /\ g_topic \in GenTopics
    /\ g_pc = "call"
    /\ g_response = "none"
    /\ g_result = <<>>
    /\ g_asked = 0

\* the oracle is consulted once, in the try block, and the function
\* returns; _get_fallback_scripts calls nothing
GenCall ==
    /\ g_pc = "call"
    /\ \E response \in ScriptResponses :
         /\ g_response' = response
         /\ g_result' = generate_with_oracle(g_topic, response)
    /\ g_asked' = g_asked + 1
    /\ g_pc' = "returned"
    /\ UNCHANGED <<g_topic, mvars, fvars, svars, pvars, tvars, cvars>>

GenNext == GenCall

GenSpec == GenInit /\ [][GenNext]_vars

----------------------------------------------------------------------------
(* Properties of generate_scripts *)

GenReturned == g_pc = "returned"

\* C2: generate_scripts returns exactly 3 script ideas, whatever the oracle
\* did.
C2_ExactlyThreeScripts == GenReturned => Len(g_result) = 3


\* the text holds sub as a run of consecutive characters
Contains(text, sub) ==
    \E i \in 0..(Len(text) - Len(sub)) :
        \A j \in 1..Len(sub) : text[i + j] = sub[j]

\* the first 30 characters of the topic's text
First30 == [i \in 1..(IF Len(g_topic) < 30 THEN Len(g_topic) ELSE 30) |-> g_topic[i]]

\* the oracle's answer gives no array: the call raised, the text has no
\* "[" with a "]" after it, or what lies between the first "[" and the
\* last "]" is no JSON
NoArrayFrom(response) ==
    \/ response.raises
    \/ ~\E p, q \in 1..Len(response.text) :
          p < q /\ response.text[p].k = "[" /\ response.text[q].k = "]"
    \/ json_loads_array(re_search_array(response.text).group, NonDictScript).raises

\* C18: when the oracle call raises, the answer has no bracketed array or
\* the matched text does not parse, generate_scripts returns exactly the 3
\* fallback scripts made from the topic's text, each holding the first 30
\* characters of that text, and the oracle is not called again.
C18_FallbackScripts ==
    (GenReturned /\ NoArrayFrom(g_response)) =>
        /\ Len(g_result) = 3
        /\ \A i \in 1..Len(g_result) :
              /\ g_result[i].dict
              /\ g_result[i] # OracleScript
              /\ \/ Contains(g_result[i].hook, First30)
                 \/ Contains(g_result[i].premise, First30)
              /\ ~Contains(g_result[i].hook \o g_result[i].premise, g_topic)
                 \/ Len(g_topic) <= 30
        /\ g_result[1].punchline = <<"The beautiful game innit">>
        /\ g_result[2].punchline = <<"And they say football is just a game">>
        /\ g_result[3].punchline = <<"You wouldn't understand">>
        /\ g_asked = 1

\* an array was matched that does not parse, for a topic of 31 characters
C18_Witness ==
    /\ GenReturned
    /\ Len(g_topic) > 30
    /\ ~g_response.raises
    /\ re_search_array(g_response.text).found
    /\ json_loads_array(re_search_array(g_response.text).group, NonDictScript).raises
    /\ Len(g_result) = 3
    /\ Contains(g_result[1].hook, First30)

----------------------------------------------------------------------------
(* The stage functions as run_pipeline calls them *)

RECURSIVE merge_loop(_, _, _, _)
merge_loop(st, tr, nw, i) ==
    IF i > Len(tr) + Len(nw) THEN st
    ELSE merge_loop(IF i <= Len(tr) THEN AbsorbTrend(st, tr[i], i)
                    ELSE AbsorbArticle(st, nw[i - Len(tr)], i),
                    tr, nw, i + 1)

\* merge_and_deduplicate(trends, news)
merge_and_deduplicate(tr, nw) ==
    merge_loop([seen_topics |-> {}, all_topics |-> <<>>], tr, nw, 1).all_topics

\* x.get("score", 0), the sort key of a dictionary
score_key(heap, ref) ==
    IF heap[ref].score.k = "unset" THEN IntVal(0) ELSE heap[ref].score

\* sorted(...) raises TypeError: it has to compare a number with a string
sorted_raises(topics, heap) ==
    \E i, j \in 1..Len(topics) :
        score_key(heap, topics[i]).k # score_key(heap, topics[j]).k

\* a sort that is not stable: of two dictionaries with equal keys the one
\* later in topics comes first
RECURSIVE sorted_unstable(_, _)
sorted_unstable(topics, heap) ==
    IF topics = <<>> THEN <<>>
    ELSE LET front == sorted_unstable(SubSeq(topics, 1, Len(topics) - 1), heap)
             x == topics[Len(topics)]
             k == Cardinality({ i \in 1..Len(front) :
                      score_key(heap, front[i]).n > score_key(heap, x).n })
         IN  SubSeq(front, 1, k) \o <<x>> \o SubSeq(front, k + 1, Len(front))

\* sorted(topics, key=score, reverse=True): a stable sort, so that of two
\* dictionaries with equal keys the one earlier in topics stays first
RECURSIVE sorted_by_score(_, _)
sorted_by_score(topics, heap) ==
    IF topics = <<>> THEN <<>>
    ELSE LET front == sorted_by_score(SubSeq(topics, 1, Len(topics) - 1), heap)
             x == topics[Len(topics)]
             k == Cardinality({ i \in 1..Len(front) :
                      score_key(heap, front[i]).n >= score_key(heap, x).n })
         IN  SubSeq(front, 1, k) \o <<x>> \o SubSeq(front, k + 1, Len(front))

\* a selector that returns the first dictionary it can name when the list
\* is empty
select_top_topic_nosentinel(scored_topics, heap) ==
    IF scored_topics = <<>> THEN 1
    ELSE sorted_by_score(scored_topics, heap)[1]

\* select_top_topic(scored_topics): a reference, or 0 for the dictionary
\* {"topic": "No topics available", "score": 0} made for an empty list
select_top_topic(scored_topics, heap) ==
    IF scored_topics = <<>> THEN 0
    ELSE sorted_by_score(scored_topics, heap)[1]

\* sorted_topics[:10]
SUMMARY_LIMIT == 10

\* for i in range(3): the script columns of a row
SHEET_SCRIPTS == 3

\* append_result(...): TRUE when the row was written.  Reading a script
\* that is no dictionary raises inside its try block, as the sheet may.
append_result_ok(scripts, sheet_ok) ==
    /\ \A i \in 1..Min(SHEET_SCRIPTS, Len(scripts)) : scripts[i].dict
    /\ sheet_ok

\* the row append_result writes
sheet_row(topic, score, scripts) ==
    [ topic |-> topic, score |-> score,
      scripts |-> [i \in 1..SHEET_SCRIPTS |->
                      IF i <= Len(scripts) THEN scripts[i] ELSE EmptyObject] ]

----------------------------------------------------------------------------
(* select_top_topic(scored_topics) *)

\* The lists given: up to MaxSelect dictionaries, each without a score or
\* with one of three numbers, or all with a string.  (A list that mixes
\* numbers and strings does not get to select_top_topic: run_pipeline
\* sorts the same list first.)
SelectScores == {3, 5, 8}
Scored(v) == [score |-> v, score_breakdown |-> "oracle"]
SelectHeaps ==
    UNION { [1..n -> {Unscored} \cup { Scored(IntVal(v)) : v \in SelectScores }] :
              n \in 0..MaxSelect }
    \cup { [i \in 1..n |-> Scored(StrVal)] : n \in 1..MaxSelect }

SelectInit ==
    /\ SchedIdle
    /\ MergeIdle
    /\ FilterIdle
    /\ ScoreIdle
    /\ GenIdle
    /\ PipeIdle
    /\ t_heap \in SelectHeaps
    /\ t_scored_topics = [i \in 1..Len(t_heap) |-> i]
    /\ t_pc = "call"
    /\ t_result = <<>>

\* if not scored_topics: return {"topic": "No topics available", "score": 0}
SelectEmpty ==
    /\ t_pc = "call"
    /\ t_scored_topics = <<>>
    /\ t_result' = <<select_top_topic(t_scored_topics, t_heap)>>
    /\ t_pc' = "returned"
    /\ UNCHANGED <<t_scored_topics, t_heap, mvars, fvars, svars, gvars, pvars, cvars>>

\* sorted_topics = sorted(...); return sorted_topics[0]
SelectCall ==
    /\ t_pc = "call"
    /\ t_scored_topics # <<>>
    /\ t_result' = <<select_top_topic(t_scored_topics, t_heap)>>
    /\ t_pc' = "returned"
    /\ UNCHANGED <<t_scored_topics, t_heap, mvars, fvars, svars, gvars, pvars, cvars>>

SelectNext == SelectEmpty \/ SelectCall

SelectSpec == SelectInit /\ [][SelectNext]_vars

----------------------------------------------------------------------------
(* Properties of select_top_topic *)

SelectReturned == t_pc = "returned"

\* the score a dictionary is ranked by: 0 when it has none
RankOf(i) ==
    IF t_heap[t_scored_topics[i]].score.k = "unset" THEN 0
    ELSE t_heap[t_scored_topics[i]].score.n

\* C12: on a non-empty list select_top_topic returns the element with the
\* maximum score, and of the elements tied for the maximum the one that
\* comes first in the list given.
C12_FirstOfTheMaximum ==
    (SelectReturned /\ t_scored_topics # <<>>) =>
        \E p \in 1..Len(t_scored_topics) :
            /\ t_result = <<t_scored_topics[p]>>
            /\ \A i \in 1..Len(t_scored_topics) : RankOf(i) <= RankOf(p)
            /\ \A i \in 1..(p - 1) : RankOf(i) < RankOf(p)

\* the scores 5, 8, 8, 3: the second element is returned
C12_Witness ==
    /\ SelectReturned
    /\ Len(t_scored_topics) = 4
    /\ RankOf(1) = 5 /\ RankOf(2) = 8 /\ RankOf(3) = 8 /\ RankOf(4) = 3
    /\ t_result = <<t_scored_topics[2]>>

----------------------------------------------------------------------------
(* run_pipeline(send_telegram_updates) *)

\* What a producer's fetch does: it raises, or it yields a list of
\* records.  The topics of both producers are trimmed and not empty.
Failed == [raises |-> TRUE, items |-> <<>>]
Fetched(items) == [raises |-> FALSE, items |-> items]

\* a fetch that returns a record of its own when it fails
fetch_uk_trends_placeholder(tweets) ==
    IF tweets.raises THEN << <<"c", " ", "d">> >> ELSE tweets.items

\* fetch_uk_trends(): except Exception: return []
fetch_uk_trends(tweets) == IF tweets.raises THEN <<>> ELSE tweets.items

\* max_results: int = 30
NEWS_MAX_RESULTS == 30

\* "Remove duplicates by title": the first article of each lower-cased
\* title is kept
RECURSIVE unique_titles(_)
unique_titles(news_items) ==
    IF news_items = <<>> THEN <<>>
    ELSE LET front == unique_titles(SubSeq(news_items, 1, Len(news_items) - 1))
             item == news_items[Len(news_items)]
         IN  IF \E i \in 1..Len(front) : lower(front[i]) = lower(item)
             THEN front ELSE Append(front, item)

\* _fetch_news_sync(max_results): a request that raises is caught inside
\* the loop over endpoints (except Exception: continue), so the function
\* returns the empty list; it does not raise
fetch_news_sync(request) ==
    [ raises |-> FALSE,
      items |-> IF request.raises THEN <<>>
                ELSE Take(unique_titles(request.items), NEWS_MAX_RESULTS) ]

\* _fetch_news_alt_sync(max_results): the same, without the removal of
\* duplicates
fetch_news_alt_sync(request) ==
    [ raises |-> FALSE,
      items |-> IF request.raises THEN <<>>
                ELSE Take(request.items, NEWS_MAX_RESULTS) ]

\* fetch_football_news(): the alternative API is asked when
\* _fetch_news_sync raises, and [] is returned when both raise.  The value
\* holds the list returned and the APIs that were asked.
fetch_football_news(primary, alt) ==
    LET first == fetch_news_sync(primary)
        second == fetch_news_alt_sync(alt)
    IN  IF ~first.raises
        THEN [items |-> first.items, asked |-> <<"news API">>]
        ELSE [items |-> IF ~second.raises THEN second.items ELSE <<>>,
              asked |-> <<"news API", "alternative news API">>]

PipeTexts ==
    { <<"a", " ", "b">>, <<"A", " ", "b">>, <<"c", " ", "d">> }
ExampleTopic == <<"Arsenal", " ", "bottle", " ", "it", " ", "again">>
PipeTrendFetches ==
    {Failed}
    \cup { Fetched(t) : t \in SeqsUpTo(PipeTexts, MaxPipeTrends) \cup { <<ExampleTopic>> } }
PipeNewsFetches ==
    {Failed} \cup { Fetched(n) : n \in SeqsUpTo(PipeTexts, MaxPipeNews) }

\* What the oracle answers at the three stages.
IndexAnswer(indices) ==
    Answer(<<LB>>
           \o [i \in 1..(2 * Len(indices) - 1) |->
                  IF i % 2 = 1 THEN NUM(indices[(i + 1) \div 2]) ELSE COMMA]
           \o <<RB>>)
PipeFilterResponses ==
    {Raised, Answer(<<PROSE>>), Answer(<<LB, RB>>)}
    \cup { IndexAnswer(ix) : ix \in { <<1>>, <<2>>, <<1, 2>>, <<2, 1>> } }
PipeScoreItems ==
    { ScoreObject(IntVal(1), IntVal(9)), ScoreObject(IntVal(2), IntVal(9)),
      ScoreObject(IntVal(1), StrVal) }
PipeScoreResponses ==
    {Raised, Answer(<<Tok("w", NonDict)>>)}
    \cup { Answer(ArrayText(<<item>>, NonDict)) : item \in PipeScoreItems }
    \cup { Answer(ArrayText(<<ScoreObject(IntVal(1), IntVal(9)),
                              ScoreObject(IntVal(2), IntVal(9))>>, NonDict)) }
PipeScriptResponses ==
    {Raised, Answer(ArrayText(<<NonDictScript>>, NonDictScript))}
    \cup { Answer(ArrayText([i \in 1..n |-> OracleScript], NonDictScript)) :
               n \in {1, MAX_SCRIPTS} }

\* How a call of send_progress ends: the message reached a chat ("sent":
\* it returns True), or it reached none ("unsent": it returns False, there
\* being no chat or every send_message having raised).  Without updates it
\* is not called.  run_pipeline does not read the value returned.
NotifyOutcomes == IF p_updates THEN {"sent", "unsent"} ELSE {"skipped"}
Noted(calls) == IF p_updates THEN Append(calls, "send_progress") ELSE calls
NoticeFault(o) == IF o = "unsent" THEN {"notice"} ELSE {}

\* the text and the score of the dictionary a reference stands for
topic_of(ref) ==
    IF ref = 0 THEN <<"No topics available">> ELSE p_all_topics[ref].topic
score_of(heap, ref) == IF ref = 0 THEN IntVal(0) ELSE heap[ref].score

PipeInit ==
    /\ SchedIdle
    /\ SelectIdle
    /\ MergeIdle
    /\ FilterIdle
    /\ ScoreIdle
    /\ GenIdle
    /\ p_pc = "fetch_trends"
    /\ p_updates \in BOOLEAN
    /\ p_trends = <<>>
    /\ p_news = <<>>
    /\ p_all_topics = <<>>
    /\ p_pl_topics = <<>>
    /\ p_scored_topics = <<>>
    /\ p_heap = <<>>
    /\ p_top_topic = <<>>
    /\ p_scripts = <<>>
    /\ p_result = NewResult
    /\ p_sheet = <<>>
    /\ p_calls = <<>>
    /\ p_answers = NoAnswers
    /\ p_faults = {}

\* Step 1: fetch Twitter trends
PipeFetchTrends ==
    /\ p_pc = "fetch_trends"
    /\ \E o \in NotifyOutcomes, tweets \in PipeTrendFetches :
         /\ p_trends' = fetch_uk_trends(tweets)
         /\ p_result' = [p_result EXCEPT !.twitter_count = Len(p_trends')]
         /\ p_calls' = Append(Noted(p_calls), "fetch_uk_trends")
         /\ p_faults' = p_faults \cup NoticeFault(o)
                           \cup (IF tweets.raises THEN {"twitter"} ELSE {})
    /\ p_pc' = "fetch_news"
    /\ UNCHANGED <<p_updates, p_news, p_all_topics, p_pl_topics, p_scored_topics,
                   p_heap, p_top_topic, p_scripts, p_sheet, p_answers>>
    /\ UNCHANGED <<mvars, fvars, svars, gvars, tvars, cvars>>

\* Step 2: fetch football news
PipeFetchNews ==
    /\ p_pc = "fetch_news"
    /\ \E o \in NotifyOutcomes, primary \in PipeNewsFetches,
          alt \in {Failed, Fetched(<< <<"c", " ", "d">> >>)} :
         /\ p_news' = fetch_football_news(primary, alt).items
         /\ p_result' = [p_result EXCEPT !.news_count = Len(p_news')]
         /\ p_calls' = Append(Noted(p_calls), "fetch_football_news")
                           \o fetch_football_news(primary, alt).asked
         /\ p_faults' = p_faults \cup NoticeFault(o)
                           \cup (IF primary.raises THEN {"news"} ELSE {})
    /\ p_pc' = "merge"
    /\ UNCHANGED <<p_updates, p_trends, p_all_topics, p_pl_topics, p_scored_topics,
                   p_heap, p_top_topic, p_scripts, p_sheet, p_answers>>
    /\ UNCHANGED <<mvars, fvars, svars, gvars, tvars, cvars>>

\* Step 3: merge and deduplicate
PipeMerge ==
    /\ p_pc = "merge"
    /\ \E o \in NotifyOutcomes : p_faults' = p_faults \cup NoticeFault(o)
    /\ p_all_topics' = merge_and_deduplicate(p_trends, p_news)
    /\ p_heap' = [r \in 1..Len(p_all_topics') |-> Unscored]
    /\ p_calls' = Append(Noted(p_calls), "merge_and_deduplicate")
    /\ p_pc' = "filter"
    /\ UNCHANGED <<p_updates, p_trends, p_news, p_pl_topics, p_scored_topics,
                   p_top_topic, p_scripts, p_result, p_sheet, p_answers>>
    /\ UNCHANGED <<mvars, fvars, svars, gvars, tvars, cvars>>

\* a test that lets an empty list through
nothing_relevant_never(pl_topics) == FALSE

\* if not pl_topics:
nothing_relevant(pl_topics) == pl_topics = <<>>

\* Step 4: filter for Premier League relevance, and the return when
\* nothing is relevant.  filter_pl_topics returns [] for an empty list
\* before it asks the oracle.
PipeFilter ==
    /\ p_pc = "filter"
    /\ LET refs == [i \in 1..Len(p_all_topics) |-> i]
           called == Append(p_calls, "filter_pl_topics")
       IN  \E response \in (IF refs = <<>> THEN {Raised} ELSE PipeFilterResponses) :
             LET pl_topics == IF refs = <<>> THEN <<>>
                              ELSE filter_with_oracle(refs, response)
                 calls == IF refs = <<>> THEN called ELSE Append(called, "oracle")
             IN  /\ p_pl_topics' = pl_topics
                 /\ p_answers' = IF refs = <<>> THEN p_answers
                                 ELSE [p_answers EXCEPT !.filter = <<response>>]
                 /\ IF nothing_relevant(pl_topics)
                    THEN /\ p_result' = [p_result EXCEPT !.error =
                                            <<"No Premier League topics found">>]
                         /\ \E o \in NotifyOutcomes :
                              p_faults' = p_faults \cup NoticeFault(o)
                         /\ p_calls' = Noted(calls)
                         /\ p_pc' = "returned"
                    ELSE /\ p_calls' = calls
                         /\ p_pc' = "score"
                         /\ UNCHANGED <<p_result, p_faults>>
    /\ UNCHANGED <<p_updates, p_trends, p_news, p_all_topics, p_scored_topics,
                   p_heap, p_top_topic, p_scripts, p_sheet>>
    /\ UNCHANGED <<mvars, fvars, svars, gvars, tvars, cvars>>

\* Step 5: score drama potential, sort and store the summary.  The sort
\* raises when it has to compare a number with a string: except Exception
\* as e sets result["error"] = str(e).
PipeScore ==
    /\ p_pc = "score"
    /\ \E response \in PipeScoreResponses :
         LET scored == score_drama(p_heap, p_pl_topics, response)
             heap == scored.heap
             scored_topics == scored.result
         IN  /\ p_heap' = heap
             /\ p_scored_topics' = scored_topics
             /\ p_answers' = [p_answers EXCEPT !.score = <<response>>]
             /\ IF sorted_raises(scored_topics, heap)
                THEN /\ p_result' = [p_result EXCEPT !.error = <<"TypeError">>]
                     /\ p_faults' = p_faults \cup {"exception"}
                     /\ p_pc' = "except"
                ELSE LET sorted_topics == sorted_by_score(scored_topics, heap)
                         summary == [i \in 1..Min(SUMMARY_LIMIT, Len(sorted_topics)) |->
                                        [ topic |-> topic_of(sorted_topics[i]),
                                          score |-> score_of(heap, sorted_topics[i]) ]]
                     IN  /\ p_result' = [p_result EXCEPT !.all_scored_topics = summary]
                         /\ p_pc' = "select"
                         /\ UNCHANGED p_faults
    /\ p_calls' = p_calls \o <<"score_drama", "oracle">>
    /\ UNCHANGED <<p_updates, p_trends, p_news, p_all_topics, p_pl_topics,
                   p_top_topic, p_scripts, p_sheet>>
    /\ UNCHANGED <<mvars, fvars, svars, gvars, tvars, cvars>>

\* Step 6: select the top topic
PipeSelect ==
    /\ p_pc = "select"
    /\ LET top_topic == select_top_topic(p_scored_topics, p_heap)
       IN  /\ p_top_topic' = <<top_topic>>
           /\ p_result' = [p_result EXCEPT !.topic = <<topic_of(top_topic)>>,
                                           !.score = <<score_of(p_heap, top_topic)>>]
    /\ \E o \in NotifyOutcomes : p_faults' = p_faults \cup NoticeFault(o)
    /\ p_calls' = Noted(Append(p_calls, "select_top_topic"))
    /\ p_pc' = "scripts"
    /\ UNCHANGED <<p_updates, p_trends, p_news, p_all_topics, p_pl_topics,
                   p_scored_topics, p_heap, p_scripts, p_sheet, p_answers>>
    /\ UNCHANGED <<mvars, fvars, svars, gvars, tvars, cvars>>

\* Step 7: generate scripts
PipeScripts ==
    /\ p_pc = "scripts"
    /\ \E o \in NotifyOutcomes : p_faults' = p_faults \cup NoticeFault(o)
    /\ \E response \in PipeScriptResponses :
         /\ p_scripts' = generate_with_oracle(topic_of(p_top_topic[1]), response)
         /\ p_answers' = [p_answers EXCEPT !.scripts = <<response>>]
    /\ p_result' = [p_result EXCEPT !.scripts = p_scripts']
    /\ p_calls' = Noted(p_calls) \o <<"generate_scripts", "oracle">>
    /\ p_pc' = "save"
    /\ UNCHANGED <<p_updates, p_trends, p_news, p_all_topics, p_pl_topics,
                   p_scored_topics, p_heap, p_top_topic, p_sheet>>
    /\ UNCHANGED <<mvars, fvars, svars, gvars, tvars, cvars>>

\* a step 8 that calls append_result again when it returned False
PipeSave_retry ==
    /\ p_pc = "save"
    /\ \E sheet_ok \in BOOLEAN :
         IF append_result_ok(p_scripts, sheet_ok)
         THEN /\ p_sheet' = Append(p_sheet, sheet_row(topic_of(p_top_topic[1]),
                                                      score_of(p_heap, p_top_topic[1]),
                                                      p_scripts))
              /\ p_calls' = Append(p_calls, "append_result")
              /\ UNCHANGED p_faults
         ELSE /\ p_faults' = p_faults \cup {"sheet"}
              /\ p_calls' = p_calls \o <<"append_result", "append_result">>
              /\ UNCHANGED p_sheet
    /\ p_pc' = "notify_done"
    /\ UNCHANGED <<p_updates, p_trends, p_news, p_all_topics, p_pl_topics,
                   p_scored_topics, p_heap, p_top_topic, p_scripts, p_result,
                   p_answers>>
    /\ UNCHANGED <<mvars, fvars, svars, gvars, tvars, cvars>>

\* Step 8: save to Google Sheets.  The value append_result returns is not
\* read.
PipeSave ==
    /\ p_pc = "save"
    /\ \E sheet_ok \in BOOLEAN :
         IF append_result_ok(p_scripts, sheet_ok)
         THEN /\ p_sheet' = Append(p_sheet, sheet_row(topic_of(p_top_topic[1]),
                                                      score_of(p_heap, p_top_topic[1]),
                                                      p_scripts))
              /\ UNCHANGED p_faults
         ELSE /\ p_faults' = p_faults \cup {"sheet"}
              /\ UNCHANGED p_sheet
    /\ p_calls' = Append(p_calls, "append_result")
    /\ p_pc' = "notify_done"
    /\ UNCHANGED <<p_updates, p_trends, p_news, p_all_topics, p_pl_topics,
                   p_scored_topics, p_heap, p_top_topic, p_scripts, p_result,
                   p_answers>>
    /\ UNCHANGED <<mvars, fvars, svars, gvars, tvars, cvars>>

\* a step 9 that sets success only when the row was written
PipeDone_saved ==
    /\ p_pc = "notify_done"
    /\ \E o \in NotifyOutcomes : p_faults' = p_faults \cup NoticeFault(o)
    /\ p_result' = [p_result EXCEPT !.success = ("sheet" \notin p_faults)]
    /\ p_calls' = Noted(p_calls)
    /\ p_pc' = "returned"
    /\ UNCHANGED <<p_updates, p_trends, p_news, p_all_topics, p_pl_topics,
                   p_scored_topics, p_heap, p_top_topic, p_scripts, p_sheet,
                   p_answers>>
    /\ UNCHANGED <<mvars, fvars, svars, gvars, tvars, cvars>>

\* a step 9 that sets success only when the completion notice was sent
PipeDone_told ==
    /\ p_pc = "notify_done"
    /\ \E o \in NotifyOutcomes :
         /\ p_faults' = p_faults \cup NoticeFault(o)
         /\ p_result' = [p_result EXCEPT !.success = (o # "unsent")]
    /\ p_calls' = Noted(p_calls)
    /\ p_pc' = "returned"
    /\ UNCHANGED <<p_updates, p_trends, p_news, p_all_topics, p_pl_topics,
                   p_scored_topics, p_heap, p_top_topic, p_scripts, p_sheet,
                   p_answers>>
    /\ UNCHANGED <<mvars, fvars, svars, gvars, tvars, cvars>>

\* Step 9: send the completion notification and set success
PipeDone ==
    /\ p_pc = "notify_done"
    /\ \E o \in NotifyOutcomes : p_faults' = p_faults \cup NoticeFault(o)
    /\ p_result' = [p_result EXCEPT !.success = TRUE]
    /\ p_calls' = Noted(p_calls)
    /\ p_pc' = "returned"
    /\ UNCHANGED <<p_updates, p_trends, p_news, p_all_topics, p_pl_topics,
                   p_scored_topics, p_heap, p_top_topic, p_scripts, p_sheet,
                   p_answers>>
    /\ UNCHANGED <<mvars, fvars, svars, gvars, tvars, cvars>>

\* an except block that goes on with step 6
PipeExcept_resume ==
    /\ p_pc = "except"
    /\ \E o \in NotifyOutcomes : p_faults' = p_faults \cup NoticeFault(o)
    /\ p_calls' = Noted(p_calls)
    /\ p_pc' = "select"
    /\ UNCHANGED <<p_updates, p_trends, p_news, p_all_topics, p_pl_topics,
                   p_scored_topics, p_heap, p_top_topic, p_scripts, p_result,
                   p_sheet, p_answers>>
    /\ UNCHANGED <<mvars, fvars, svars, gvars, tvars, cvars>>

\* an except block that raises the exception again after the report
PipeExcept_reraise ==
    /\ p_pc = "except"
    /\ \E o \in NotifyOutcomes : p_faults' = p_faults \cup NoticeFault(o)
    /\ p_calls' = Noted(p_calls)
    /\ p_pc' = "raised"
    /\ UNCHANGED <<p_updates, p_trends, p_news, p_all_topics, p_pl_topics,
                   p_scored_topics, p_heap, p_top_topic, p_scripts, p_result,
                   p_sheet, p_answers>>
    /\ UNCHANGED <<mvars, fvars, svars, gvars, tvars, cvars>>

\* the except block: the error is reported and run_pipeline returns result
PipeExcept ==
    /\ p_pc = "except"
    /\ \E o \in NotifyOutcomes : p_faults' = p_faults \cup NoticeFault(o)
    /\ p_calls' = Noted(p_calls)
    /\ p_pc' = "returned"
    /\ UNCHANGED <<p_updates, p_trends, p_news, p_all_topics, p_pl_topics,
                   p_scored_topics, p_heap, p_top_topic, p_scripts, p_result,
                   p_sheet, p_answers>>
    /\ UNCHANGED <<mvars, fvars, svars, gvars, tvars, cvars>>

PipeNext ==
    \/ PipeFetchTrends
    \/ PipeFetchNews
    \/ PipeMerge
    \/ PipeFilter
    \/ PipeScore
    \/ PipeSelect
    \/ PipeScripts
    \/ PipeSave
    \/ PipeDone
    \/ PipeExcept

PipeSpec == PipeInit /\ [][PipeNext]_vars

\* the steps at which run_pipeline awaits a call or runs a statement
RunningSteps ==
    {"fetch_trends", "fetch_news", "merge", "filter", "score", "select",
     "scripts", "save", "notify_done", "except"}

\* the run leaves the step it is at
PipeAdvance ==
    /\ p_pc \in RunningSteps
    /\ p_pc' \in (RunningSteps \cup {"returned"}) \ {p_pc}

\* at every running step a step of run_pipeline is possible
RunningStepsEnabled == (p_pc \in RunningSteps) => ENABLED PipeNext

\* run_pipeline when every call it awaits returns or raises: the run
\* eventually leaves each running step
PipeLiveSpec == PipeInit /\ [][PipeNext]_vars /\ WF_p_pc(PipeAdvance)

----------------------------------------------------------------------------
(* The schedule: /pause, /resume and /go of the bot (telegram_bot.py) and  *)
(* run_scheduled() (scheduled_run.py), which cron starts as a process of   *)
(* its own.  The two processes share the file schedule_state.json.         *)

\* how many commands the bot handles, and how many scheduled runs start
MaxCommands == 3
MaxScheduled == 2

\* the chats the commands come from
Chats == {1, 2}

\* None is <<>>, a value v is <<v>>
\* the dictionary cmd_pause saves
PausedState(chat_id, now) ==
    [paused |-> TRUE, paused_by |-> <<chat_id>>, paused_at |-> <<now>>]

\* the dictionary cmd_resume saves
ResumedState(chat_id, now) ==
    [paused |-> FALSE, paused_by |-> <<>>, paused_at |-> <<>>,
     resumed_by |-> <<chat_id>>, resumed_at |-> <<now>>]

\* the dictionary load_schedule_state returns when it read nothing
DefaultState == [paused |-> FALSE, paused_by |-> <<>>, paused_at |-> <<>>]

\* the file holding the dictionary state
JsonFile(state) == [kind |-> "json", state |-> <<state>>]

\* load_schedule_state(): the dictionary of the file; the default when the
\* file does not exist or json.load raises
load_schedule_state(file) ==
    IF file.kind = "json" THEN file.state[1] ELSE DefaultState

\* what open(..., "w") and json.dump do: the file is written; open raises
\* and the file is as it was; or json.dump raises after open has emptied
\* the file.  save_schedule_state only logs the exception.
SaveOutcomes == {"written", "refused", "truncated"}

save_schedule_state(file, state, outcome) ==
    CASE outcome = "written" -> JsonFile(state)
      [] outcome = "refused" -> file
      [] outcome = "truncated" -> [kind |-> "corrupt", state |-> <<>>]

\* is_schedule_paused()
is_schedule_paused(file) == load_schedule_state(file).paused

\* datetime.now() of a command: the commands are handled one after the
\* other, each at a later time
now == Len(c_cmds) + 1

SchedInit ==
    /\ MergeIdle
    /\ FilterIdle
    /\ ScoreIdle
    /\ SelectIdle
    /\ GenIdle
    /\ PipeIdle
    /\ c_file \in { [kind |-> "absent", state |-> <<>>],
                    JsonFile(PausedState(1, 0)),
                    JsonFile(ResumedState(1, 0)) }
    /\ c_cmds = <<>>
    /\ c_reply = "none"
    /\ c_pc = "idle"
    /\ c_seen = <<>>
    /\ c_notices = <<>>
    /\ c_runs = <<>>
    /\ c_started = 0
    /\ c_result = <<>>

\* cmd_pause
CmdPause ==
    /\ Len(c_cmds) < MaxCommands
    /\ \E chat_id \in Chats, outcome \in SaveOutcomes :
         LET state == load_schedule_state(c_file)
         IN  IF state.paused
             THEN /\ c_reply' = "Schedule is already paused"
                  /\ UNCHANGED c_file
             ELSE /\ c_file' = save_schedule_state(c_file,
                                   PausedState(chat_id, now), outcome)
                  /\ c_reply' = "Daily schedule paused"
    /\ c_cmds' = Append(c_cmds, "pause")
    /\ UNCHANGED <<c_pc, c_seen, c_notices, c_runs, c_started, c_result>>
    /\ UNCHANGED <<mvars, fvars, svars, gvars, tvars, pvars>>

\* cmd_resume
CmdResume ==
    /\ Len(c_cmds) < MaxCommands
    /\ \E chat_id \in Chats, outcome \in SaveOutcomes :
         LET state == load_schedule_state(c_file)
         IN  IF ~state.paused
             THEN /\ c_reply' = "Schedule is already active"
                  /\ UNCHANGED c_file
             ELSE /\ c_file' = save_schedule_state(c_file,
                                   ResumedState(chat_id, now), outcome)
                  /\ c_reply' = "Daily schedule resumed"
    /\ c_cmds' = Append(c_cmds, "resume")
    /\ UNCHANGED <<c_pc, c_seen, c_notices, c_runs, c_started, c_result>>
    /\ UNCHANGED <<mvars, fvars, svars, gvars, tvars, pvars>>

\* a cmd_go that refuses while the schedule is paused
CmdGo_guarded ==
    /\ Len(c_cmds) < MaxCommands
    /\ \E acknowledged \in BOOLEAN :
         IF acknowledged /\ ~is_schedule_paused(c_file)
         THEN /\ c_runs' = Append(c_runs, "go")
              /\ c_reply' = "Pipeline result"
         ELSE /\ c_reply' = IF acknowledged THEN "Schedule is paused"
                            ELSE "undelivered"
              /\ UNCHANGED c_runs
    /\ c_cmds' = Append(c_cmds, "go")
    /\ UNCHANGED <<c_file, c_pc, c_seen, c_notices, c_started, c_result>>
    /\ UNCHANGED <<mvars, fvars, svars, gvars, tvars, pvars>>

\* cmd_go: the acknowledgement is sent, then run_pipeline is invoked and
\* its result replied.  When the acknowledgement raises, the handler ends
\* there.
CmdGo ==
    /\ Len(c_cmds) < MaxCommands
    /\ \E acknowledged \in BOOLEAN :
         IF acknowledged
         THEN /\ c_runs' = Append(c_runs, "go")
              /\ c_reply' = "Pipeline result"
         ELSE /\ c_reply' = "undelivered"
              /\ UNCHANGED c_runs
    /\ c_cmds' = Append(c_cmds, "go")
    /\ UNCHANGED <<c_file, c_pc, c_seen, c_notices, c_started, c_result>>
    /\ UNCHANGED <<mvars, fvars, svars, gvars, tvars, pvars>>

\* run_scheduled starts: config.validate()
SchedStart ==
    /\ c_pc \in {"idle", "returned"}
    /\ c_started < MaxScheduled
    /\ c_started' = c_started + 1
    /\ c_seen' = <<>>
    /\ c_notices' = <<>>
    /\ \E missing \in BOOLEAN :
         IF missing
         THEN c_pc' = "returned" /\ c_result' = <<"False">>
         ELSE c_pc' = "check" /\ c_result' = <<>>
    /\ UNCHANGED <<c_file, c_cmds, c_reply, c_runs>>
    /\ UNCHANGED <<mvars, fvars, svars, gvars, tvars, pvars>>

\* if is_schedule_paused():
SchedCheck ==
    /\ c_pc = "check"
    /\ c_seen' = <<is_schedule_paused(c_file)>>
    /\ c_pc' = IF is_schedule_paused(c_file) THEN "skip" ELSE "announce"
    /\ UNCHANGED <<c_file, c_cmds, c_reply, c_notices, c_runs, c_started, c_result>>
    /\ UNCHANGED <<mvars, fvars, svars, gvars, tvars, pvars>>

\* the skip notice and the return
SchedSkip ==
    /\ c_pc = "skip"
    /\ c_notices' = Append(c_notices, "Scheduled run skipped (paused)")
    /\ c_result' = <<"skipped">>
    /\ c_pc' = "returned"
    /\ UNCHANGED <<c_file, c_cmds, c_reply, c_seen, c_runs, c_started>>
    /\ UNCHANGED <<mvars, fvars, svars, gvars, tvars, pvars>>

\* the start notice
SchedAnnounce ==
    /\ c_pc = "announce"
    /\ c_notices' = Append(c_notices, "Scheduled run starting")
    /\ c_pc' = "invoke"
    /\ UNCHANGED <<c_file, c_cmds, c_reply, c_seen, c_runs, c_started, c_result>>
    /\ UNCHANGED <<mvars, fvars, svars, gvars, tvars, pvars>>

\* result = await run_pipeline(send_telegram_updates=True)
SchedInvoke ==
    /\ c_pc = "invoke"
    /\ c_runs' = Append(c_runs, "scheduled")
    /\ c_pc' = "report"
    /\ UNCHANGED <<c_file, c_cmds, c_reply, c_seen, c_notices, c_started, c_result>>
    /\ UNCHANGED <<mvars, fvars, svars, gvars, tvars, pvars>>

\* the summary of the run and the return
SchedReport ==
    /\ c_pc = "report"
    /\ \E success \in BOOLEAN :
         /\ c_notices' = Append(c_notices, IF success THEN "Daily Run Complete"
                                           ELSE "Daily Run Failed")
         /\ c_result' = IF success THEN <<"True">> ELSE <<"False">>
    /\ c_pc' = "returned"
    /\ UNCHANGED <<c_file, c_cmds, c_reply, c_seen, c_runs, c_started>>
    /\ UNCHANGED <<mvars, fvars, svars, gvars, tvars, pvars>>

SchedNext ==
    \/ CmdPause
    \/ CmdResume
    \/ CmdGo
    \/ SchedStart
    \/ SchedCheck
    \/ SchedSkip
    \/ SchedAnnounce
    \/ SchedInvoke
    \/ SchedReport

SchedSpec == SchedInit /\ [][SchedNext]_vars

----------------------------------------------------------------------------
(* Properties of run_pipeline *)

PipeReturned == p_pc = "returned"

\* the run went through scoring, selection and script generation
RanScoringToScripts ==
    \E i, j, k \in 1..Len(p_calls) :
        /\ i < j /\ j < k
        /\ p_calls[i] = "score_drama"
        /\ p_calls[j] = "select_top_topic"
        /\ p_calls[k] = "generate_scripts"

\* C10: no answer of the oracle makes run_pipeline end in the failed
\* outcome: with a non-empty relevant set (and no notification to fail,
\* send_telegram_updates being off) the run goes through scoring, selection
\* and script generation and returns without an error.
C10_OracleNeverFatal ==
    (PipeReturned /\ ~p_updates /\ p_pl_topics # <<>>) =>
        /\ p_result.error = <<>>
        /\ p_result.success
        /\ RanScoringToScripts

\* append_result was called in this run and did not write the row
SaveFailed == "sheet" \in p_faults

\* C13: when append_result cannot write the row, run_pipeline reports the
\* failure to its caller (the result it returns shows it), and the result
\* still holds the topic selected and the scripts.
C13_SinkFailureReported ==
    (PipeReturned /\ SaveFailed) =>
        /\ ~p_result.success \/ p_result.error # <<>>
        /\ p_result.topic = <<topic_of(p_top_topic[1])>>
        /\ p_result.scripts = p_scripts

\* C14: a failure of append_result does not change the status of the run:
\* when the stages before it completed and it fails, run_pipeline returns
\* success = True with the winning topic, its score and the scripts
\* generated.
C14_SinkFailureKeepsSuccess ==
    (PipeReturned /\ SaveFailed) =>
        /\ p_result.success
        /\ p_result.error = <<>>
        /\ p_result.topic = <<topic_of(p_top_topic[1])>>
        /\ p_result.score = <<score_of(p_heap, p_top_topic[1])>>
        /\ p_result.scripts = p_scripts
        /\ p_sheet = <<>>

\* the sheet raised while the scripts were three JSON objects
C14_Witness ==
    /\ PipeReturned
    /\ SaveFailed
    /\ Len(p_scripts) = MAX_SCRIPTS
    /\ \A i \in 1..Len(p_scripts) : p_scripts[i].dict
    /\ p_result.success

\* the fields of a result that the caller reads
OutcomeOf(r) == <<r.success, r.topic, r.score, r.scripts, r.error>>

\* The outcome that the producers' lists and the oracle's three answers
\* of this run determine, with no reference to send_progress.
OutcomeDetermined ==
    LET merged == merge_and_deduplicate(p_trends, p_news)
        refs == [i \in 1..Len(merged) |-> i]
        relevant == IF refs = <<>> THEN <<>>
                    ELSE filter_with_oracle(refs, p_answers.filter[1])
    IN  IF relevant = <<>>
        THEN <<FALSE, <<>>, <<>>, <<>>, <<"No Premier League topics found">>>>
        ELSE LET scored == score_drama([r \in 1..Len(merged) |-> Unscored],
                                       relevant, p_answers.score[1])
             IN  IF sorted_raises(scored.result, scored.heap)
                 THEN <<FALSE, <<>>, <<>>, <<>>, <<"TypeError">>>>
                 ELSE LET top == select_top_topic(scored.result, scored.heap)
                      IN  <<TRUE, <<merged[top].topic>>, <<scored.heap[top].score>>,
                            generate_with_oracle(merged[top].topic,
                                                 p_answers.scripts[1]),
                            <<>>>>

\* C15: no failure of send_progress changes the outcome of a run: the
\* success flag, topic, score, scripts and error returned are those that
\* the producers and the oracle determine, whether the notices were sent or
\* not.
C15_NoticesDoNotMatter ==
    PipeReturned => OutcomeOf(p_result) = OutcomeDetermined

\* a run that completed although a notice was not sent
C15_Witness ==
    /\ PipeReturned
    /\ p_updates
    /\ "notice" \in p_faults
    /\ p_result.success
    /\ Len(p_scored_topics) >= 2

Called(name) == \E i \in 1..Len(p_calls) : p_calls[i] = name

\* C16: when the filter returns an empty list, run_pipeline ends in the
\* outcome of its own: success = False, error "No Premier League topics
\* found", topic None and no scripts; and the scorer, the selector, the
\* script generator and the sheet are never called in that run.
C16_EmptyRelevantSetOutcome ==
    (PipeReturned /\ p_pl_topics = <<>>) =>
        /\ ~p_result.success
        /\ p_result.error = <<"No Premier League topics found">>
        /\ p_result.topic = <<>>
        /\ p_result.score = <<>>
        /\ p_result.scripts = <<>>
        /\ ~Called("score_drama")
        /\ ~Called("select_top_topic")
        /\ ~Called("generate_scripts")
        /\ ~Called("append_result")
        /\ p_sheet = <<>>

\* the oracle found none of two merged topics relevant
C16_Witness ==
    /\ PipeReturned
    /\ Len(p_all_topics) = 2
    /\ p_answers.filter = <<Answer(<<LB, RB>>)>>
    /\ p_pl_topics = <<>>
    /\ p_result.error = <<"No Premier League topics found">>

\* an exception left the try block of run_pipeline in this run
Excepted == "exception" \in p_faults

\* what was called after the call of the oracle for the scores
CallsSinceScoring ==
    LET k == CHOOSE i \in 1..Len(p_calls) : p_calls[i] = "score_drama"
    IN  SubSeq(p_calls, k + 2, Len(p_calls))

\* C17: when a stage raises an exception that nothing handles, the run
\* goes straight to the failed outcome: no later stage is executed
\* (selection, script generation, the sheet, the completion notice; the
\* one call that may follow is the notice of the error), and the result
\* has success = False and the text of the exception as its error.
C17_ExceptionShortCircuits ==
    Excepted =>
        /\ p_pc \in {"except", "returned"}
        /\ ~p_result.success
        /\ p_result.error = <<"TypeError">>
        /\ p_result.topic = <<>>
        /\ p_result.scripts = <<>>
        /\ ~Called("select_top_topic")
        /\ ~Called("generate_scripts")
        /\ ~Called("append_result")
        /\ p_sheet = <<>>
        /\ CallsSinceScoring \in {<<>>, <<"send_progress">>}

\* the sort raised, the error was notified and the result returned
C17_Witness ==
    /\ PipeReturned
    /\ Excepted
    /\ p_updates
    /\ CallsSinceScoring = <<"send_progress">>
    /\ p_result.error = <<"TypeError">>

\* both producers have been asked
BothFetched == p_pc \notin {"fetch_trends", "fetch_news"}

\* C19: a failure of either producer is tolerated: the empty list stands
\* for the source that failed, and the run goes on to merge, filter and
\* score what the other source yielded; it does not end in the failed
\* outcome on that account.
C19_ProducerFailureTolerated ==
    /\ ("twitter" \in p_faults /\ p_pc # "fetch_trends") =>
          p_trends = <<>> /\ p_result.twitter_count = 0
    /\ ("news" \in p_faults /\ BothFetched) =>
          p_news = <<>> /\ p_result.news_count = 0
    /\ (PipeReturned /\ ({"twitter", "news"} \cap p_faults) # {}) =>
          /\ Called("merge_and_deduplicate")
          /\ Called("filter_pl_topics")
          /\ p_all_topics = merge_and_deduplicate(p_trends, p_news)
          /\ p_pl_topics # <<>> => Called("score_drama")
          /\ (p_pl_topics # <<>> /\ ~Excepted) => p_result.success
          /\ p_pl_topics = <<>> =>
                p_result.error = <<"No Premier League topics found">>

\* the trend fetch failed and the run completed with a news record
C19_Witness ==
    /\ PipeReturned
    /\ "twitter" \in p_faults
    /\ "news" \notin p_faults
    /\ p_news # <<>>
    /\ Len(p_all_topics) = Len(p_news)
    /\ p_result.success
    /\ p_result.topic = <<p_news[1]>>

\* the position in the merged list of the record with this text
MergeIndex(text) ==
    CHOOSE i \in 1..Len(p_all_topics) : p_all_topics[i].topic = text

\* C22: the ranked summary run_pipeline stores (all_scored_topics) has
\* min(10, number of scored topics) entries, ordered by score descending
\* with ties in the order of the merged list, and the topic the selector
\* returns is its first entry.
C22_RankedSummary ==
    p_top_topic # <<>> =>
        LET summary == p_result.all_scored_topics
        IN  /\ Len(summary) = (IF Len(p_scored_topics) < 10
                                THEN Len(p_scored_topics) ELSE 10)
            /\ \A i, j \in 1..Len(summary) :
                  i < j =>
                     \/ summary[i].score.n > summary[j].score.n
                     \/ /\ summary[i].score.n = summary[j].score.n
                        /\ MergeIndex(summary[i].topic) < MergeIndex(summary[j].topic)
            /\ summary[1].topic = topic_of(p_top_topic[1])

\* C23: select_top_topic on an empty list does not fail: it returns the
\* sentinel record, whose topic is "No topics available" and whose score
\* is 0.
C23_SentinelOnEmpty ==
    (SelectReturned /\ t_scored_topics = <<>>) =>
        /\ t_result = <<0>>
        /\ topic_of(t_result[1]) = <<"No topics available">>
        /\ score_of(t_heap, t_result[1]) = IntVal(0)

\* select_top_topic has returned from a call with the empty list
C23_Witness ==
    /\ SelectReturned
    /\ t_scored_topics = <<>>
    /\ Len(t_result) = 1

\* the scenario: one trend "Arsenal bottle it again", no news, the filter
\* oracle answers [1], the scoring oracle index 1 with score 9, and the
\* script oracle raises
IsScenario ==
    /\ p_trends = <<ExampleTopic>>
    /\ p_news = <<>>
    /\ p_answers.filter = <<IndexAnswer(<<1>>)>>
    /\ p_answers.score =
          <<Answer(ArrayText(<<ScoreObject(IntVal(1), IntVal(9))>>, NonDict))>>
    /\ p_answers.scripts = <<Raised>>

\* C24: in the scenario run_pipeline returns success = True, the topic
\* "Arsenal bottle it again", score 9 and exactly 3 scripts, each of which
\* holds the text of the topic.
C24_Scenario ==
    (PipeReturned /\ IsScenario) =>
        /\ p_result.success
        /\ p_result.error = <<>>
        /\ p_result.topic = <<ExampleTopic>>
        /\ p_result.score = <<IntVal(9)>>
        /\ Len(p_result.scripts) = 3
        /\ \A i \in 1..Len(p_result.scripts) :
              \/ Contains(p_result.scripts[i].hook, ExampleTopic)
              \/ Contains(p_result.scripts[i].premise, ExampleTopic)

\* the scenario has run to its end, the sheet having failed or not
C24_Witness ==
    /\ PipeReturned
    /\ IsScenario
    /\ p_calls[Len(p_calls)] \in {"append_result", "send_progress"}

\* C26: when the request to the primary news API fails,
\* fetch_football_news asks the alternative news API before it returns,
\* and returns the empty list only when the alternative fails too.
C26_AlternativeTried ==
    ("news" \in p_faults /\ BothFetched) => Called("alternative news API")

\* the positions of the news records in the input
NewsPositions == (Len(trends) + 1)..(Len(trends) + Len(news))

\* C27: a news record is compared only with the keys of the records
\* accepted before it: a news record with a non-empty text that is neither
\* equal nor similar to the key of any record accepted before it is kept,
\* whatever the rejected records before it were.
C27_ComparedWithAcceptedOnly ==
    MergeDone =>
        \A q \in NewsPositions :
            ( /\ strip(InputAt(q)) # <<>>
              /\ \A i \in 1..Len(all_topics) :
                    all_topics[i].pos < q =>
                        ~SameTopic(all_topics[i].topic, InputAt(q)) )
            => InOutput(q)

\* a news record was rejected, and a later news record similar to it, with
\* another key, is in the output
C27_Witness ==
    /\ MergeDone
    /\ \E r, q \in NewsPositions :
         /\ r < q
         /\ strip(InputAt(r)) # <<>>
         /\ ~InOutput(r)
         /\ NormKey(InputAt(r)) # NormKey(InputAt(q))
         /\ SameTopic(InputAt(r), InputAt(q))
         /\ InOutput(q)

\* the number of calls of the named function made by the run
CallCount(name) == Cardinality({ i \in 1..Len(p_calls) : p_calls[i] = name })

\* C30: in a result returned with success=True the error is None, the
\* topic is the text of a record of the filter's output and not the
\* selector's sentinel (the selector was called with a non-empty list), the
\* score is that record's score, and append_result was called exactly once.
C30_SuccessfulResult ==
    (PipeReturned /\ p_result.success) =>
        /\ p_result.error = <<>>
        /\ p_scored_topics # <<>>
        /\ p_top_topic # <<0>>
        /\ \E k \in 1..Len(p_pl_topics) :
             /\ p_result.topic = <<p_all_topics[p_pl_topics[k]].topic>>
             /\ p_result.score = <<p_heap[p_pl_topics[k]].score>>
        /\ CallCount("append_result") = 1

\* a run has succeeded with two records in the filter's output, the second
\* of them selected, and append_result returned False
C30_Witness ==
    /\ PipeReturned
    /\ p_result.success
    /\ Len(p_pl_topics) = 2
    /\ p_top_topic = <<p_pl_topics[2]>>
    /\ "sheet" \in p_faults

\* the three outcomes of a run
Completed ==
    /\ p_result.success
    /\ p_result.error = <<>>
    /\ ~Excepted
    /\ Called("append_result")

EndedEmpty ==
    /\ ~p_result.success
    /\ p_result.error = <<"No Premier League topics found">>
    /\ ~Excepted
    /\ p_pl_topics = <<>>
    /\ ~Called("score_drama")

FailedOutright ==
    /\ ~p_result.success
    /\ Excepted
    /\ p_result.error = <<"TypeError">>

ExactlyOneOutcome ==
    Cardinality({ n \in 1..3 : \/ n = 1 /\ Completed
                               \/ n = 2 /\ EndedEmpty
                               \/ n = 3 /\ FailedOutright }) = 1

\* C28: when every producer, oracle, sink and notification call returns or
\* raises, a run of run_pipeline eventually returns, and it returns in
\* exactly one of three outcomes: completed (success=True), ended early on
\* an empty relevant set, or failed (success=False with the text of the
\* exception as error).
C28_ReturnsInOneOutcome == <>[](PipeReturned /\ ExactlyOneOutcome)

\* a run has returned in the failed outcome, after the fetches, the merge,
\* the filter and the scoring returned
C28_Witness ==
    /\ PipeReturned
    /\ FailedOutright
    /\ Called("score_drama")
    /\ ~Completed
    /\ ~EndedEmpty

----------------------------------------------------------------------------
(* Properties of the schedule *)

\* the flag "paused" as the file holds it
FilePaused == c_file.kind = "json" /\ c_file.state[1].paused

\* the step is an invocation of run_pipeline by the scheduled run
ScheduledInvocation == c_runs' = Append(c_runs, "scheduled")

\* the step is a /go command whose acknowledgement was delivered
GoAcknowledged ==
    /\ c_cmds' = Append(c_cmds, "go")
    /\ c_reply' # "undelivered"

\* the step is a step of the scheduled run after its check
ScheduledStep == c_seen # <<>> /\ c_pc # "returned" /\ c_pc' # c_pc

\* C25 as stated: while the schedule state is paused a scheduled run does
\* not invoke run_pipeline, and /go invokes run_pipeline whatever the
\* flag.
C25_NeverInvokedWhilePaused ==
    [][ /\ FilePaused => ~ScheduledInvocation
        /\ GoAcknowledged => c_runs' = Append(c_runs, "go") ]_vars

\* C25 amended: the check of a scheduled run reads the flag of the file; a
\* run whose check read paused sends the skip notice and returns without
\* invoking run_pipeline, and run_pipeline is invoked by a scheduled run
\* only after a check that read not paused (the flag may have been set
\* since); /go invokes run_pipeline whatever the flag.
C25_SkipsWhenCheckReadsPaused ==
    [][ /\ (c_seen = <<>> /\ c_seen' # <<>>) => c_seen' = <<FilePaused>>
        /\ ScheduledInvocation => c_seen = <<FALSE>>
        /\ (ScheduledStep /\ c_seen = <<TRUE>>) =>
              /\ c_notices' = <<"Scheduled run skipped (paused)">>
              /\ c_result' = <<"skipped">>
              /\ c_pc' = "returned"
              /\ c_runs' = c_runs
        /\ GoAcknowledged => c_runs' = Append(c_runs, "go") ]_vars

\* the schedule is paused, a scheduled run has read the flag and returned
\* with the skip notice only, and a /go handled while paused has invoked
\* run_pipeline
C25_Witness ==
    /\ FilePaused
    /\ c_cmds = <<"pause", "go">>
    /\ c_seen = <<TRUE>>
    /\ c_result = <<"skipped">>
    /\ c_notices = <<"Scheduled run skipped (paused)">>
    /\ c_runs = <<"go">>

\* C29: a /pause handled while paused and a /resume handled while active
\* leave the persisted state as it was, and after a /pause or /resume the
\* flag is true exactly when that command was /pause.
C29_PauseResumeIdempotent ==
    [][ /\ (c_cmds' = Append(c_cmds, "pause") /\ FilePaused) => c_file' = c_file
        /\ (c_cmds' = Append(c_cmds, "resume") /\ ~FilePaused) => c_file' = c_file
        /\ c_cmds' = Append(c_cmds, "pause") => FilePaused'
        /\ c_cmds' = Append(c_cmds, "resume") => ~FilePaused' ]_vars

====
